---------------------------- MODULE Spec2Model ----------------------------
(***************************************************************************)
(* A model of the subprocess runner (execute), the target-list parser, the *)
(* CMake cache reader and the legacy CMake driver.                         *)
(*                                                                         *)
(* Text is modelled as a sequence of characters, a character being a       *)
(* one-letter string, so that splitting, searching and slicing are         *)
(* computed the way the JavaScript string methods compute them.  Indices   *)
(* of the JavaScript methods are zero-based and are kept zero-based here.  *)
(***************************************************************************)
EXTENDS Integers, Sequences, FiniteSets, TLC

VARIABLES
  \* ---- execute(): one spawned child and its result promise
  outputConsumer,    \* TRUE iff an OutputConsumer was passed to execute()
  child,             \* "running" | "closed": has the 'close' event been emitted
  out_rest,          \* stdout text the child has still to write
  err_rest,          \* stderr text the child has still to write
  stdout_acc,        \* let stdout_acc
  line_acc,          \* let line_acc
  stderr_acc,        \* let stderr_acc
  stderr_line_acc,   \* let stderr_line_acc
  result,            \* the promise `result`: [state, value]
  calls,             \* the calls made on the consumer, in order, each with the
                     \* state the promise had when the call was made
  events,            \* the 'error' and 'close' events emitted so far, in order
  \* ---- TargetListParser: one parser instance
  generator,         \* readonly generator
  _targetNames,      \* private _targetNames
  fed,               \* the lines passed to output() and error() so far, in order
  \* ---- CMakeCache: the file at one path and the instances read from it
  file,              \* the file at `path`: NoFile or its content
  fromPathCall,      \* the fromPath() call in flight: where it is suspended
  caches,            \* the CMakeCache instances constructed so far, in order
  rollbar,           \* the reports made through rollbar.error so far, in order
  parseLog,          \* the loop of the latest parseCache call: its lines and
                     \* the values of entries and docs_acc around each line
  fromPathLog,       \* how each fromPath() call ended, in order
  fsChanges,         \* number of changes other programs made to the file
  \* ---- LegacyCMakeDriver: one driver instance and its binary directory
  _needsReconfigure, \* private _needsReconfigure
  _kit,              \* the active kit (this._kit): NoKit or a kit
  _buildType,        \* private _buildType
  _configArgs,       \* private _configArgs
  _linkage,          \* private _linkage
  _targets,          \* private _targets
  cmakeCache,        \* the cache snapshot the driver holds (what it last reloaded)
  disk,              \* the binary directory: cache file, CMakeFiles, other files
  pc,                \* where create/configure/cleanConfigure/build is suspended
  op,                \* the locals of that operation
  kpc,               \* where setKit is suspended
  setKitCall,        \* the latest setKit call: its arguments and what it did
  lastReturn         \* how the latest finished operation ended

execVars == <<outputConsumer, child, out_rest, err_rest, stdout_acc, line_acc,
              stderr_acc, stderr_line_acc, result, calls, events>>

parserVars == <<generator, _targetNames, fed>>

cacheVars == <<file, fromPathCall, caches, rollbar, parseLog, fromPathLog, fsChanges>>

driverVars == <<_needsReconfigure, _kit, _buildType, _configArgs, _linkage, _targets,
                cmakeCache, disk, pc, op, kpc, setKitCall, lastReturn>>

vars == <<execVars, parserVars, cacheVars, driverVars>>

-----------------------------------------------------------------------------
(* Bounds of the model *)

\* longest stdout text a child writes
MaxOut == 4
\* longest stderr text a child writes
MaxErr == 1
\* most 'error' events one child emits
MaxErrorEvents == 1
\* most lines one TargetListParser is fed
MaxFeed == 2
\* most lines in a cache file
MaxCacheLines == 2
\* most fromPath() calls on the path
MaxFromPath == 2
\* most changes other programs make to the cache file
MaxFsChanges == 1

-----------------------------------------------------------------------------
(* Characters and the JavaScript string methods used by the sources *)

CR == "\r"
LF == "\n"

Min(a, b) == IF a < b THEN a ELSE b
Max(a, b) == IF a > b THEN a ELSE b

\* all texts over the characters S of length at most n
TextsUpTo(S, n) == UNION {[1..k -> S] : k \in 0..n}

\* String.prototype.substr(start, length), start >= 0
substr(s, start, length) ==
  SubSeq(s, start + 1, Min(Len(s), start + Max(length, 0)))

\* String.prototype.substr(start), start >= 0
substrFrom(s, start) == SubSeq(s, start + 1, Len(s))

\* does pat occur in s at zero-based position i
occursAt(s, pat, i) ==
  /\ i >= 0
  /\ i + Len(pat) <= Len(s)
  /\ \A k \in 1..Len(pat) : s[i + k] = pat[k]

RECURSIVE indexOfFrom(_, _, _)
indexOfFrom(s, pat, i) ==
  IF i + Len(pat) > Len(s) THEN -1
  ELSE IF occursAt(s, pat, i) THEN i
  ELSE indexOfFrom(s, pat, i + 1)

\* String.prototype.indexOf(pat): zero-based position of the first
\* occurrence, -1 when there is none
indexOf(s, pat) == indexOfFrom(s, pat, 0)

includes(s, pat) == indexOf(s, pat) # -1
startsWith(s, pat) == occursAt(s, pat, 0)
endsWith(s, pat) == occursAt(s, pat, Len(s) - Len(pat))

RECURSIVE split(_, _)
\* String.prototype.split(sep) for a one-character separator: the pieces
\* between the separators, always at least one piece
split(s, sep) ==
  LET i == indexOf(s, <<sep>>)
  IN  IF i = -1 THEN <<s>>
      ELSE <<substr(s, 0, i)>> \o split(substrFrom(s, i + 1), sep)

\* String.prototype.trim() for the white space the model's texts hold
RECURSIVE trimStart(_)
trimStart(s) ==
  IF Len(s) > 0 /\ s[1] \in {" ", "\t", CR, LF} THEN trimStart(Tail(s)) ELSE s
RECURSIVE trimEnd(_)
trimEnd(s) ==
  IF Len(s) > 0 /\ s[Len(s)] \in {" ", "\t", CR, LF}
  THEN trimEnd(SubSeq(s, 1, Len(s) - 1)) ELSE s
trim(s) == trimEnd(trimStart(s))

-----------------------------------------------------------------------------
(* execute(): src/src/proc.ts *)

\* the characters a child writes in the model
OutChars == {"a", CR, LF}

\* what the 'error' event carries
SpawnErrors == {"ENOENT", "EPERM"}
\* what the 'close' event carries
ExitCodes == {0, 1}

\* l => l.endsWith('\r') ? l.substr(0, l.length - 1) : l
stripCR(l) == IF endsWith(l, <<CR>>) THEN substr(l, 0, Len(l) - 1) ELSE l

\* str.split('\n').map(stripCR)
splitLines(str) ==
  LET parts == split(str, LF)
  IN  [i \in 1..Len(parts) |-> stripCR(parts[i])]

\* The while loop and the statement after it, for one chunk: the lines
\* handed to the consumer and the partial line kept.  The first completed
\* line is prefixed with the partial line kept so far.
completedLines(acc, lines) ==
  [i \in 1..(Len(lines) - 1) |-> IF i = 1 THEN acc \o lines[1] ELSE lines[i]]

keptLine(acc, lines) ==
  IF Len(lines) > 1 THEN lines[Len(lines)] ELSE acc \o lines[1]

\* a promise settles once: resolve and reject of a settled promise do nothing
resolve(p, v) == IF p.state = "pending" THEN [state |-> "resolved", value |-> v] ELSE p
reject(p, e) == IF p.state = "pending" THEN [state |-> "rejected", value |-> e] ELSE p

\* one call on the consumer, stamped with the promise's state at that moment
consumerCall(method, line) == [op |-> method, line |-> line, settled |-> result.state # "pending"]

consumerCalls(method, lines) ==
  IF outputConsumer THEN [i \in 1..Len(lines) |-> consumerCall(method, lines[i])] ELSE <<>>

\* no child was spawned
ExecUnused ==
  /\ outputConsumer = FALSE
  /\ child = "closed"
  /\ out_rest = <<>>
  /\ err_rest = <<>>
  /\ stdout_acc = <<>>
  /\ line_acc = <<>>
  /\ stderr_acc = <<>>
  /\ stderr_line_acc = <<>>
  /\ result = [state |-> "pending", value |-> "none"]
  /\ calls = <<>>
  /\ events = <<>>

ExecStart ==
  /\ outputConsumer \in BOOLEAN
  /\ child = "running"
  /\ out_rest \in TextsUpTo(OutChars, MaxOut)
  /\ err_rest \in TextsUpTo(OutChars, MaxErr)
  /\ stdout_acc = <<>>
  /\ line_acc = <<>>
  /\ stderr_acc = <<>>
  /\ stderr_line_acc = <<>>
  /\ result = [state |-> "pending", value |-> "none"]
  /\ calls = <<>>
  /\ events = <<>>

\* child.stdout.on('data', ...) for a chunk of n characters
StdoutData(n) ==
  /\ child = "running"
  /\ n \in 1..Len(out_rest)
  /\ LET str == SubSeq(out_rest, 1, n)
         lines == splitLines(str)
     IN  /\ calls' = calls \o consumerCalls("output", completedLines(line_acc, lines))
         /\ line_acc' = keptLine(line_acc, lines)
         /\ stdout_acc' = stdout_acc \o str
         /\ out_rest' = substrFrom(out_rest, n)
  /\ UNCHANGED <<outputConsumer, child, err_rest, stderr_acc, stderr_line_acc,
                 result, events>>
  /\ UNCHANGED <<parserVars, cacheVars, driverVars>>

\* child.stderr.on('data', ...) for a chunk of n characters
StderrData(n) ==
  /\ child = "running"
  /\ n \in 1..Len(err_rest)
  /\ LET str == SubSeq(err_rest, 1, n)
         lines == splitLines(str)
     IN  /\ calls' = calls \o consumerCalls("error", completedLines(stderr_line_acc, lines))
         /\ stderr_line_acc' = keptLine(stderr_line_acc, lines)
         /\ stderr_acc' = stderr_acc \o str
         /\ err_rest' = substrFrom(err_rest, n)
  /\ UNCHANGED <<outputConsumer, child, out_rest, stdout_acc, line_acc,
                 result, events>>
  /\ UNCHANGED <<parserVars, cacheVars, driverVars>>

\* the error handler without its reject
OnErrorIgnored(err) ==
  /\ child = "running"
  /\ Cardinality({i \in 1..Len(events) : events[i].type = "error"}) < MaxErrorEvents
  /\ events' = Append(events, [type |-> "error", value |-> err])
  /\ UNCHANGED <<outputConsumer, child, out_rest, err_rest, stdout_acc, line_acc,
                 stderr_acc, stderr_line_acc, calls, result>>
  /\ UNCHANGED <<parserVars, cacheVars, driverVars>>

\* child.on('error', (err) => { reject(err); })
OnError(err) ==
  /\ child = "running"
  /\ Cardinality({i \in 1..Len(events) : events[i].type = "error"}) < MaxErrorEvents
  /\ result' = reject(result, err)
  /\ events' = Append(events, [type |-> "error", value |-> err])
  /\ UNCHANGED <<outputConsumer, child, out_rest, err_rest, stdout_acc, line_acc,
                 stderr_acc, stderr_line_acc, calls>>
  /\ UNCHANGED <<parserVars, cacheVars, driverVars>>

\* the close handler without the flush of the stderr line
closeCallsStdoutOnly ==
  IF line_acc # <<>> /\ outputConsumer
  THEN <<consumerCall("output", line_acc)>> ELSE <<>>

\* the final calls of the close handler
closeCalls ==
  (IF line_acc # <<>> /\ outputConsumer
   THEN <<consumerCall("output", line_acc)>> ELSE <<>>)
  \o
  (IF stderr_line_acc # <<>> /\ outputConsumer
   THEN <<consumerCall("error", stderr_line_acc)>> ELSE <<>>)

\* child.on('close', (retc) => ...): emitted once, after both streams ended
OnClose(retc) ==
  /\ child = "running"
  /\ out_rest = <<>>
  /\ err_rest = <<>>
  /\ calls' = calls \o closeCalls
  /\ result' = resolve(result, [retc |-> retc, stdout |-> stdout_acc, stderr |-> stderr_acc])
  /\ child' = "closed"
  /\ events' = Append(events, [type |-> "close", value |-> retc])
  /\ UNCHANGED <<outputConsumer, out_rest, err_rest, stdout_acc, line_acc,
                 stderr_acc, stderr_line_acc>>
  /\ UNCHANGED <<parserVars, cacheVars, driverVars>>


-----------------------------------------------------------------------------
(* TargetListParser: src/src/proc.ts *)

Makefiles == <<"M", "a", "k", "e", "f", "i", "l", "e", "s">>
UnixMakefiles == <<"U", "n", "i", "x", " ">> \o Makefiles
NMakeMakefiles == <<"N", "M", "a", "k", "e", " ">> \o Makefiles
Ninja == <<"N", "i", "n", "j", "a">>
VisualStudio == <<"V", "i", "s", "u", "a", "l", " ", "S", "t", "u", "d", "i", "o">>
VisualStudio15 == VisualStudio \o <<" ", "1", "5", " ", "2", "0", "1", "7">>

\* the generator names of the model
Generators == {UnixMakefiles, NMakeMakefiles, Ninja, VisualStudio15}

Dots == <<".", ".", ".">>
ColonSpace == <<":", " ">>
AllPrimaryTargets ==
  <<"A", "l", "l", " ", "p", "r", "i", "m", "a", "r", "y", " ",
    "t", "a", "r", "g", "e", "t", "s">>

\* The lines of a target listing in the model: a head, a word and a tail.
LineHeads == {Dots \o <<" ">>, Dots \o <<" ", " ">>, Dots, <<>>,
              AllPrimaryTargets \o <<" ">>}
LineWords == {<<"a">>, <<"b", "c">>, <<"b", ":", " ", "c">>}
LineTails == {<<>>, <<" ", "x">>, <<":", " ", "x">>}
ListingLines == [head : LineHeads, word : LineWords, tail : LineTails]
lineText(l) == l.head \o l.word \o l.tail

\* output(line) without the cut at the first space
outputKeepsAnnotation(gen, names, line) ==
  IF endsWith(gen, Makefiles)
  THEN IF ~startsWith(line, Dots) THEN names
       ELSE Append(names, substrFrom(line, 4))
  ELSE LET colpos == indexOf(line, ColonSpace)
       IN  IF colpos = -1 \/ includes(line, AllPrimaryTargets) THEN names
           ELSE Append(names, substr(line, 0, colpos))

\* output(line) without the test for the umbrella line
outputKeepsUmbrella(gen, names, line) ==
  IF endsWith(gen, Makefiles)
  THEN IF ~startsWith(line, Dots) THEN names
       ELSE LET target_name == substrFrom(line, 4)
                cut == IF includes(target_name, <<" ">>)
                       THEN substr(target_name, 0, indexOf(target_name, <<" ">>))
                       ELSE target_name
            IN  Append(names, cut)
  ELSE LET colpos == indexOf(line, ColonSpace)
       IN  IF colpos = -1 THEN names
           ELSE Append(names, substr(line, 0, colpos))

\* output(line): the value of _targetNames after the call
output(gen, names, line) ==
  IF endsWith(gen, Makefiles)
  THEN IF ~startsWith(line, Dots) THEN names
       ELSE LET target_name == substrFrom(line, 4)
                cut == IF includes(target_name, <<" ">>)
                       THEN substr(target_name, 0, indexOf(target_name, <<" ">>))
                       ELSE target_name
            IN  Append(names, cut)
  ELSE LET colpos == indexOf(line, ColonSpace)
       IN  IF colpos = -1 \/ includes(line, AllPrimaryTargets) THEN names
           ELSE Append(names, substr(line, 0, colpos))

\* error(line), were the lines of the error stream dropped
errorDropsLine(gen, names, line) == names

\* error(line) { this.output(line); }
error(gen, names, line) == output(gen, names, line)

\* no parser was constructed
ParserUnused ==
  /\ generator = <<>>
  /\ _targetNames = <<>>
  /\ fed = <<>>

\* new TargetListParser(generator)
ParserStart ==
  /\ generator \in Generators
  /\ _targetNames = <<>>
  /\ fed = <<>>

ParserOutput(l) ==
  /\ Len(fed) < MaxFeed
  /\ _targetNames' = output(generator, _targetNames, lineText(l))
  /\ fed' = Append(fed, [op |-> "output", line |-> l])
  /\ UNCHANGED generator
  /\ UNCHANGED <<execVars, cacheVars, driverVars>>

ParserError(l) ==
  /\ Len(fed) < MaxFeed
  /\ _targetNames' = error(generator, _targetNames, lineText(l))
  /\ fed' = Append(fed, [op |-> "error", line |-> l])
  /\ UNCHANGED generator
  /\ UNCHANGED <<execVars, cacheVars, driverVars>>

-----------------------------------------------------------------------------
(* CMakeCache: src/unnamed/part_001 *)

T_BOOL == <<"B", "O", "O", "L">>
T_STRING == <<"S", "T", "R", "I", "N", "G">>
T_PATH == <<"P", "A", "T", "H">>
T_FILEPATH == <<"F", "I", "L", "E", "P", "A", "T", "H">>
T_INTERNAL == <<"I", "N", "T", "E", "R", "N", "A", "L">>
T_UNINITIALIZED == <<"U", "N", "I", "N", "I", "T", "I", "A", "L", "I", "Z", "E", "D">>
T_STATIC == <<"S", "T", "A", "T", "I", "C">>
T_GARBAGE == <<"G", "A", "R", "B", "A", "G", "E">>
Constructor == <<"c", "o", "n", "s", "t", "r", "u", "c", "t", "o", "r">>
ADVANCED == <<"-", "A", "D", "V", "A", "N", "C", "E", "D">>
ON == <<"O", "N">>
OFF == <<"O", "F", "F">>
One == <<"1">>
FOO == <<"F", "O", "O">>
Slashes == <<"/", "/">>

\* the names every object literal inherits from Object.prototype
ObjectPrototypeKeys ==
  {Constructor,
   <<"t", "o", "S", "t", "r", "i", "n", "g">>,
   <<"v", "a", "l", "u", "e", "O", "f">>}

\* const type = typemap[typename]: the entry type, "undefined" when the
\* object has no such property, the inherited member for an inherited name
typemap(typename) ==
  CASE typename = T_BOOL -> "Bool"
    [] typename = T_STRING -> "String"
    [] typename = T_PATH -> "Path"
    [] typename = T_FILEPATH -> "FilePath"
    [] typename = T_INTERNAL -> "Internal"
    [] typename = T_UNINITIALIZED -> "Uninitialized"
    [] typename = T_STATIC -> "Static"
    [] typename \in ObjectPrototypeKeys -> "Object.prototype member"
    [] OTHER -> "undefined"

\* util.isTruthy for a string
isTruthy(value) ==
  ~ \/ value \in {<<>>, <<"F", "A", "L", "S", "E">>, OFF, <<"0">>,
                  <<"N", "O", "T", "F", "O", "U", "N", "D">>, <<"N", "O">>, <<"N">>,
                  <<"I", "G", "N", "O", "R", "E">>}
    \/ endsWith(value, <<"-", "N", "O", "T", "F", "O", "U", "N", "D">>)

\* new Entry(key, value, type, docs, advanced)
Entry(key, value, type, docs, advanced) ==
  [key |-> key,
   type |-> type,
   value |-> IF type = "Bool" THEN [bool |-> isTruthy(value)] ELSE [str |-> value],
   docs |-> docs,
   advanced |-> advanced]

\* entries.set(name, entry)
mapSet(m, k, v) == [x \in DOMAIN m \cup {k} |-> IF x = k THEN v ELSE m[x]]
EmptyMap == [x \in {} |-> x]

RECURSIVE splitNewlines(_)
\* content.split(/\r\n|\n|\r/)
splitNewlines(s) ==
  LET isNl(i) == s[i] = CR \/ s[i] = LF
      at == {i \in 1..Len(s) : isNl(i)}
  IN  IF at = {} THEN <<s>>
      ELSE LET i == CHOOSE j \in at : \A k \in at : j <= k
               w == IF s[i] = CR /\ i < Len(s) /\ s[i + 1] = LF THEN 2 ELSE 1
           IN  <<SubSeq(s, 1, i - 1)>> \o splitNewlines(SubSeq(s, i + w, Len(s)))

\* /^\s*#/.test(line)
isHashComment(line) == startsWith(trimStart(line), <<"#">>)

\* .filter(line => !!line.length).filter(line => !/^\s*#/.test(line))
cacheLines(content) ==
  SelectSeq(splitNewlines(content), LAMBDA l : Len(l) > 0 /\ ~isHashComment(l))

\* /^(.*?):(.*?)=(.*)/.exec(line): the name ends at the first ':' and the
\* type at the first '=' after it; no match without such a ':' and '='
matchEntry(line) ==
  LET c == indexOf(line, <<":">>)
      e == IF c = -1 THEN -1 ELSE indexOfFrom(line, <<"=">>, c + 1)
  IN  IF c = -1 \/ e = -1 THEN [matched |-> FALSE]
      ELSE [matched |-> TRUE,
            name |-> substr(line, 0, c),
            typename |-> substr(line, c + 1, e - c - 1),
            valuestr |-> substrFrom(line, e + 1)]

\* One pass of the for loop of parseCache over `line`; st holds entries,
\* docs_acc and the reports made to rollbar.error.
parseLine(st, line) ==
  IF startsWith(line, Slashes)
  THEN [st EXCEPT !.docs_acc = @ \o substrFrom(line, 2) \o <<" ">>]
  ELSE LET match == matchEntry(line)
       IN  IF ~match.matched
           THEN [st EXCEPT !.errors = Append(@, "Failed to read a line")]
           ELSE IF match.name = <<>> \/ match.typename = <<>> THEN st
           ELSE IF endsWith(match.name, ADVANCED) /\ match.valuestr = One THEN st
           ELSE LET type == typemap(match.typename)
                    docs == trim(st.docs_acc)
                IN  IF type = "undefined"
                    THEN [st EXCEPT !.docs_acc = <<>>,
                                    !.errors = Append(@, "unknown type")]
                    ELSE [st EXCEPT !.docs_acc = <<>>,
                                    !.entries = mapSet(@, match.name,
                                        Entry(match.name, match.valuestr, type, docs, FALSE))]

RECURSIVE parseLoop(_, _)
\* the states of the loop: before the first line and after each line
parseLoop(st, lines) ==
  IF lines = <<>> THEN <<st>>
  ELSE <<st>> \o parseLoop(parseLine(st, Head(lines)), Tail(lines))

\* parseCache(content), as the record of its loop
parseCache(content) ==
  LET lines == cacheLines(content)
  IN  [lines |-> lines,
       loop |-> parseLoop([entries |-> EmptyMap, docs_acc |-> <<>>, errors |-> <<>>], lines)]

\* what parseCache returns, and what it reported
parsedEntries(p) == p.loop[Len(p.loop)].entries
parsedErrors(p) == p.loop[Len(p.loop)].errors

\* new CMakeCache(path, exists, entries)
CMakeCache(path, exists, entries) == [path |-> path, exists |-> exists, entries |-> entries]

Null == [null |-> TRUE]
\* get(key)
get(cache, key) == IF key \in DOMAIN cache.entries THEN cache.entries[key] ELSE Null
\* get allEntries
allEntries(cache) == {cache.entries[k] : k \in DOMAIN cache.entries}

\* The lines of a cache file in the model
CacheFileLines ==
  {n \o <<":">> \o t \o <<"=">> \o v :
     n \in {FOO}, t \in {T_BOOL, T_STRING, T_GARBAGE, Constructor, <<>>}, v \in {ON, OFF}}
  \cup {FOO \o ADVANCED \o <<":">> \o t \o <<"=">> \o One : t \in {T_INTERNAL, T_GARBAGE}}
  \cup {FOO \o ADVANCED \o <<":">> \o T_BOOL \o <<"=">> \o ON,
        <<":">> \o T_BOOL \o <<"=">> \o ON,
        FOO, FOO \o <<":">> \o T_BOOL,
        Slashes \o <<"d">>, Slashes,
        <<" ", "#", "c">>}

RECURSIVE join(_, _)
join(lines, eol) ==
  IF lines = <<>> THEN <<>> ELSE Head(lines) \o eol \o join(Tail(lines), eol)

\* a piece of a cache file as the external tool writes it: the marker of an
\* advanced variable under its comment, then an entry
MarkerThenEntry ==
  join(<<Slashes \o <<"d">>,
         FOO \o ADVANCED \o <<":">> \o T_INTERNAL \o <<"=">> \o One,
         FOO \o <<":">> \o T_BOOL \o <<"=">> \o ON>>, <<LF>>)

\* the contents of a cache file in the model, in both newline conventions
CacheContents ==
  {join(ls, eol) : ls \in TextsUpTo(CacheFileLines, MaxCacheLines), eol \in {<<LF>>, <<CR, LF>>}}
  \cup {MarkerThenEntry}

\* what other programs write to the file while the model runs
WrittenContents == {<<>>, FOO \o <<":">> \o T_BOOL \o <<"=">> \o ON \o <<LF>>}

\* the states of the file at the path: absent, or a file with some content
NoFile == [absent |-> TRUE]
FileWith(content) == [content |-> content]
NoParse == [lines |-> <<>>, loop |-> <<>>]
ThePath == "CMakeCache.txt"

\* no cache is read
CacheUnused ==
  /\ file = NoFile
  /\ fromPathCall = [pc |-> "idle"]
  /\ caches = <<>>
  /\ rollbar = <<>>
  /\ parseLog = NoParse
  /\ fromPathLog = <<>>
  /\ fsChanges = 0

CacheStart ==
  /\ file \in {NoFile} \cup {FileWith(c) : c \in CacheContents}
  /\ fromPathCall = [pc |-> "idle"]
  /\ caches = <<>>
  /\ rollbar = <<>>
  /\ parseLog = NoParse
  /\ fromPathLog = <<>>
  /\ fsChanges = 0

\* fromPath(path) with the test of `exists` left out: the file is read
\* whether or not fs.exists found it
FromPathExistsUnchecked ==
  /\ fromPathCall.pc = "exists"
  /\ fromPathCall' = [pc |-> "readFile", seen |-> file # NoFile]
  /\ UNCHANGED <<caches, fromPathLog>>
  /\ UNCHANGED <<file, rollbar, parseLog, fsChanges>>
  /\ UNCHANGED <<execVars, parserVars, driverVars>>

\* `await fs.exists(path)` answers and fromPath goes on: to readFile if the
\* file was found, else it returns the empty instance.  `seen` notes what
\* fs.exists found.
FromPathExists ==
  /\ fromPathCall.pc = "exists"
  /\ LET exists == file # NoFile
     IN  IF exists
         THEN /\ fromPathCall' = [pc |-> "readFile", seen |-> TRUE]
              /\ UNCHANGED <<caches, fromPathLog>>
         ELSE /\ fromPathCall' = [pc |-> "idle"]
              /\ caches' = Append(caches, CMakeCache(ThePath, exists, EmptyMap))
              /\ fromPathLog' = Append(fromPathLog,
                     [seen |-> FALSE, ended |-> "returned",
                      reports |-> 0, at |-> Len(caches) + 1])
  /\ UNCHANGED <<file, rollbar, parseLog, fsChanges>>
  /\ UNCHANGED <<execVars, parserVars, driverVars>>

\* the rest of fromPath, were a reload to refresh the instance it was asked
\* of instead of constructing a new one
FromPathReadInPlace ==
  /\ fromPathCall.pc = "readFile"
  /\ fromPathCall' = [pc |-> "idle"]
  /\ IF file = NoFile
     THEN /\ fromPathLog' = Append(fromPathLog,
                 [seen |-> fromPathCall.seen, ended |-> "threw", reports |-> 0, at |-> 0])
          /\ UNCHANGED <<caches, rollbar, parseLog>>
     ELSE LET p == parseCache(file.content)
              c == CMakeCache(ThePath, TRUE, parsedEntries(p))
          IN  /\ parseLog' = p
              /\ rollbar' = rollbar \o parsedErrors(p)
              /\ caches' = IF caches = <<>> THEN <<c>>
                            ELSE [caches EXCEPT ![Len(caches)] = c]
              /\ fromPathLog' = Append(fromPathLog,
                     [seen |-> fromPathCall.seen, ended |-> "returned",
                      reports |-> Len(parsedErrors(p)), at |-> Max(1, Len(caches))])
  /\ UNCHANGED <<file, fsChanges>>
  /\ UNCHANGED <<execVars, parserVars, driverVars>>

\* the rest of fromPath: `await fs.readFile(path)`, parseCache and the
\* constructor; readFile fails when the file is gone by now
FromPathRead ==
  /\ fromPathCall.pc = "readFile"
  /\ fromPathCall' = [pc |-> "idle"]
  /\ IF file = NoFile
     THEN /\ fromPathLog' = Append(fromPathLog,
                 [seen |-> fromPathCall.seen, ended |-> "threw", reports |-> 0, at |-> 0])
          /\ UNCHANGED <<caches, rollbar, parseLog>>
     ELSE LET p == parseCache(file.content)
          IN  /\ parseLog' = p
              /\ rollbar' = rollbar \o parsedErrors(p)
              /\ caches' = Append(caches, CMakeCache(ThePath, TRUE, parsedEntries(p)))
              /\ fromPathLog' = Append(fromPathLog,
                     [seen |-> fromPathCall.seen, ended |-> "returned",
                      reports |-> Len(parsedErrors(p)), at |-> Len(caches) + 1])
  /\ UNCHANGED <<file, fsChanges>>
  /\ UNCHANGED <<execVars, parserVars, driverVars>>

\* CMakeCache.fromPath(path) is called and awaits fs.exists(path)
FromPath ==
  /\ fromPathCall.pc = "idle"
  /\ caches = <<>>
  /\ Len(fromPathLog) < MaxFromPath
  /\ fromPathCall' = [pc |-> "exists"]
  /\ UNCHANGED <<file, caches, rollbar, parseLog, fromPathLog, fsChanges>>
  /\ UNCHANGED <<execVars, parserVars, driverVars>>

\* getReloaded() on the instance caches[i]
GetReloaded(i) ==
  /\ fromPathCall.pc = "idle"
  /\ i \in 1..Len(caches)
  /\ Len(fromPathLog) < MaxFromPath
  /\ fromPathCall' = [pc |-> "exists"]
  /\ UNCHANGED <<file, caches, rollbar, parseLog, fromPathLog, fsChanges>>
  /\ UNCHANGED <<execVars, parserVars, driverVars>>

\* another program writes the file
FsWrite(content) ==
  /\ fsChanges < MaxFsChanges
  /\ file # FileWith(content)
  /\ file' = FileWith(content)
  /\ fsChanges' = fsChanges + 1
  /\ UNCHANGED <<fromPathCall, caches, rollbar, parseLog, fromPathLog>>
  /\ UNCHANGED <<execVars, parserVars, driverVars>>

\* another program removes the file
FsUnlink ==
  /\ fsChanges < MaxFsChanges
  /\ file # NoFile
  /\ file' = NoFile
  /\ fsChanges' = fsChanges + 1
  /\ UNCHANGED <<fromPathCall, caches, rollbar, parseLog, fromPathLog>>
  /\ UNCHANGED <<execVars, parserVars, driverVars>>

-----------------------------------------------------------------------------
(* LegacyCMakeDriver: src/src/proc.ts *)

\* ---- kits
NoKit == [none |-> TRUE]
GccKit ==
  [name |-> "GCC 4.8.1", type |-> "compilerKit",
   compilers |-> <<<<"C", "gcc">>, <<"CXX", "g++">>>>]
\* the same compilers found again under another name
GccRescannedKit ==
  [name |-> "GCC 4.8.1 (rescanned)", type |-> "compilerKit",
   compilers |-> <<<<"C", "gcc">>, <<"CXX", "g++">>>>]
VsKit == [name |-> "VisualStudio", type |-> "vsKit", compilers |-> <<>>]
Kits == {GccKit, GccRescannedKit, VsKit}

\* what the kit-change policy compares: the toolchain a kit resolves to
kitIdentity(kit) == [type |-> kit.type, compilers |-> kit.compilers]

\* this._kitChangeNeedsClean(kit), evaluated while `prev` is the active kit
_kitChangeNeedsClean(prev, kit) ==
  /\ prev # NoKit
  /\ kitIdentity(prev) # kitIdentity(kit)

\* ---- the binary directory
EmptyDisk == [cache |-> FALSE, gen |-> <<>>, cmakeFiles |-> FALSE, objects |-> FALSE]
MinGWMakefiles == <<"M", "i", "n", "G", "W", " ">> \o Makefiles
\* the generators a cache found in the binary directory may name
CacheGenerators == Generators \cup {MinGWMakefiles}
DiskStates ==
  {EmptyDisk}
  \cup {[cache |-> TRUE, gen |-> g, cmakeFiles |-> TRUE, objects |-> o] :
          g \in CacheGenerators, o \in BOOLEAN}

\* fs.rmdir(this.binaryDir)
rmdirBinaryDir(d) == EmptyDisk
\* fs.unlink(cache)
unlinkCache(d) == [d EXCEPT !.cache = FALSE, !.gen = <<>>]
\* fs.rmdir(cmake_files)
rmdirCMakeFiles(d) == [d EXCEPT !.cmakeFiles = FALSE]

\* what a run of the external tool's configure leaves in the directory:
\* with exit code 0 a cache for the pinned generator, else for the
\* generator given with -G, else for the tool's own default generator
configuredDisk(d, genArg) ==
  [cache |-> TRUE,
   gen |-> IF d.cache THEN d.gen ELSE IF genArg THEN Ninja ELSE UnixMakefiles,
   cmakeFiles |-> TRUE,
   objects |-> d.objects]

\* this._reloadCMakeCache(): the snapshot read from the cache path
reloadedCache(d) == [exists |-> d.cache, gen |-> d.gen]
NoCache == [exists |-> FALSE, gen |-> <<>>]

\* this.generatorName: the generator the held snapshot names; the empty
\* text stands for null
generatorName == IF cmakeCache.exists THEN cmakeCache.gen ELSE <<>>

\* ---- variants
Undefined == "undefined"
falsy(x) == x \in {Undefined, ""}
UndefinedSettings == [undefined |-> TRUE]
VariantOptions ==
  {[buildType |-> Undefined, settings |-> UndefinedSettings, linkage |-> Undefined],
   [buildType |-> "", settings |-> UndefinedSettings, linkage |-> Undefined],
   [buildType |-> "Release", settings |-> UndefinedSettings, linkage |-> Undefined],
   [buildType |-> Undefined,
    settings |-> [value |-> <<[key |-> "FOO", value |-> [str |-> "bar"]],
                              [key |-> "BAR", value |-> [bool |-> TRUE]]>>],
    linkage |-> "shared"],
   [buildType |-> "Debug", settings |-> [value |-> <<>>], linkage |-> "static"]}

\* ---- the arguments of configure
\* An argument is the sequence of the parts it is put together from: the
\* argument -DFOO:STRING=bar is <<"-D", "FOO", ":", "STRING", "=", "bar">>.

\* util.cmakeify(value): the cache type and the text of a setting's value
cmakeify(value) ==
  IF "bool" \in DOMAIN value
  THEN [type |-> "BOOL", value |-> IF value.bool THEN "TRUE" ELSE "FALSE"]
  ELSE [type |-> "STRING", value |-> value.str]

\* this._cmakeFlags(): the extra flags
_cmakeFlags == <<<<"-D", "CMAKE_EXPORT_COMPILE_COMMANDS", ":", "BOOL", "=", "TRUE">>>>

\* args.push('-G' + generator) without the test for the cache file
generatorArgAlways(cacheExists) == <<<<"-G", "Ninja">>>>

\* if (!await fs.exists(this.cachePath)) args.push('-G' + generator)
generatorArg(cacheExists) == IF cacheExists THEN <<>> ELSE <<<<"-G", "Ninja">>>>

\* for (const setting of this._configArgs) args.push(`${setting.key}:...`)
settingArgs(configArgs) ==
  [i \in 1..Len(configArgs) |->
     <<configArgs[i].key, ":", cmakeify(configArgs[i].value).type, "=",
       cmakeify(configArgs[i].value).value>>]

\* args.push(`-DCMAKE_BUILD_TYPE:STRING=${this._buildType}`)
buildTypeArg(buildType) == <<"-D", "CMAKE_BUILD_TYPE", ":", "STRING", "=", buildType>>

\* switch (this._kit.type): the compilers of a compilerKit
compilerArgs(kit) ==
  IF kit.type = "compilerKit"
  THEN [i \in 1..Len(kit.compilers) |->
          <<"-D", "CMAKE_", kit.compilers[i][1], "_COMPILER", ":", "FILEPATH", "=",
            kit.compilers[i][2]>>]
  ELSE <<>>

\* args.push('-H' + sourceDir) and args.push('-B' + bindir)
directoryArgs == <<<<"-H", "sourceDir">>, <<"-B", "binaryDir">>>>

\* the args configure() calls executeCommand with
configureArgs(cacheExists, configArgs, buildType, kit) ==
  generatorArg(cacheExists) \o settingArgs(configArgs) \o <<buildTypeArg(buildType)>>
    \o compilerArgs(kit) \o _cmakeFlags \o directoryArgs

\* ---- the external tool's target listings
RECURSIVE parseListing(_, _, _)
\* the parser's targetNames after the lines of a listing
parseListing(gen, names, lines) ==
  IF lines = <<>> THEN names
  ELSE parseListing(gen, output(gen, names, Head(lines)), Tail(lines))

TargetListings ==
  {<<>>,
   <<<<>>>>,
   <<Dots \o <<" ", "a">>, Dots \o <<" ", "b", "c", " ", "x">>>>,
   <<<<"a", ":", " ", "x">>, AllPrimaryTargets \o <<":", " ", "x">>>>}

\* parser.targetNames.map(t => ({type: 'named', name: t}))
namedTargets(names) == [i \in 1..Len(names) |-> [type |-> "named", name |-> names[i]]]

\* a list that keeps what the driver held and adds the names of the pass
targetsAppended(previous, names) == previous \o namedTargets(names)

\* this._targets = parser.targetNames.map(...): the assignment replaces the
\* list the driver held by the names of this pass
targetsAssigned(previous, names) == namedTargets(names)

BuildTargets == {"all", "clean"}

\* the generator_args of build(), without the test of the target
generator_argsForEveryTarget(gen, target) ==
  IF gen = <<>> THEN <<>>
  ELSE IF \/ includes(gen, <<"U", "n", "i", "x", " ">> \o Makefiles)
          \/ includes(gen, <<"M", "i", "n", "G", "W", " ">> \o Makefiles)
          \/ includes(gen, Ninja)
       THEN <<"-j", "numJobs">>
  ELSE IF includes(gen, VisualStudio)
       THEN <<"/m", "/property:GenerateFullPaths=true">>
  ELSE <<>>

\* the generator_args of build()
generator_args(gen, target) ==
  IF gen = <<>> THEN <<>>
  ELSE IF /\ \/ includes(gen, <<"U", "n", "i", "x", " ">> \o Makefiles)
             \/ includes(gen, <<"M", "i", "n", "G", "W", " ">> \o Makefiles)
             \/ includes(gen, Ninja)
          /\ target # "clean"
       THEN <<"-j", "numJobs">>
  ELSE IF includes(gen, VisualStudio)
       THEN <<"/m", "/property:GenerateFullPaths=true">>
  ELSE <<>>

\* ['--build', binaryDir, '--config', this._buildType, '--target', target,
\* '--'].concat(generator_args)
buildArgs(buildType, target, extra) ==
  <<"--build", "binaryDir", "--config", buildType, "--target", target, "--">> \o extra

\* ---- the operations
NoOp ==
  [name |-> "none", target |-> "", retc |-> 0, genArg |-> FALSE, args |-> <<>>,
   extra |-> <<>>]
\* the record of a setKit call: the kit active when it was called, the kit
\* given, what the policy said, how the removal went, whether the kit was
\* adopted and, once the call is over, whether the binary directory was
\* empty (removed) or as it was at the call (untouched) at that moment
NoSetKit ==
  [called |-> FALSE, prev |-> NoKit, kit |-> NoKit, need_clean |-> FALSE,
   rmdir |-> "none", adopted |-> FALSE, before |-> EmptyDisk,
   removed |-> FALSE, untouched |-> FALSE]
Returned(name, kind, code) == [op |-> name, kind |-> kind, code |-> code]
\* an operation is in flight: nothing was returned yet
Pending == Returned("none", "none", 0)

\* no driver was created
DriverUnused ==
  /\ _needsReconfigure = TRUE
  /\ _kit = NoKit
  /\ _buildType = "Debug"
  /\ _configArgs = <<>>
  /\ _linkage = "static"
  /\ _targets = <<>>
  /\ cmakeCache = NoCache
  /\ disk = EmptyDisk
  /\ pc = "unused"
  /\ op = NoOp
  /\ kpc = "unused"
  /\ setKitCall = NoSetKit
  /\ lastReturn = Pending

\* create() after `new LegacyCMakeDriver()`: the field initializers have
\* run and _init() is about to
DriverStart ==
  /\ _needsReconfigure = TRUE
  /\ _kit = NoKit
  /\ _buildType = "Debug"
  /\ _configArgs = <<>>
  /\ _linkage = "static"
  /\ _targets = <<>>
  /\ cmakeCache = NoCache
  /\ disk \in DiskStates
  /\ pc = "init"
  /\ op = [NoOp EXCEPT !.name = "create"]
  /\ kpc = "idle"
  /\ setKitCall = NoSetKit
  /\ lastReturn = Pending

DriverFrame == UNCHANGED <<execVars, parserVars, cacheVars>>

\* create(), did it return the instance without the initial discovery
CreateSkipsDiscovery ==
  /\ pc = "init"
  /\ cmakeCache' = reloadedCache(disk)
  /\ pc' = "idle"
  /\ lastReturn' = Returned("create", "instance", 0)
  /\ UNCHANGED <<_needsReconfigure, _kit, _buildType, _configArgs, _linkage, _targets,
                 disk, op, kpc, setKitCall>>
  /\ DriverFrame

\* _init(): the base class loads the cache, then a target discovery runs
\* if a cache file exists; otherwise create() returns the instance
Create ==
  /\ pc = "init"
  /\ cmakeCache' = reloadedCache(disk)
  /\ IF disk.cache
     THEN /\ pc' = "refresh"
          /\ UNCHANGED lastReturn
     ELSE /\ pc' = "idle"
          /\ lastReturn' = Returned("create", "instance", 0)
  /\ UNCHANGED <<_needsReconfigure, _kit, _buildType, _configArgs, _linkage, _targets,
                 disk, op, kpc, setKitCall>>
  /\ DriverFrame

\* setKit(kit) with the removal left out: the kit is adopted whatever the
\* policy says
SetKitNeverCleans(kit) ==
  /\ kpc = "idle"
  /\ pc # "init"
  /\ _needsReconfigure' = TRUE
  /\ setKitCall' = [called |-> TRUE, prev |-> _kit, kit |-> kit,
                    need_clean |-> FALSE, rmdir |-> "none",
                    adopted |-> FALSE, before |-> disk,
                    removed |-> FALSE, untouched |-> FALSE]
  /\ kpc' = "setBaseKit"
  /\ lastReturn' = Pending
  /\ UNCHANGED <<_kit, _buildType, _configArgs, _linkage, _targets, cmakeCache, disk,
                 pc, op>>
  /\ DriverFrame

\* setKit(kit) up to its first await
SetKit(kit) ==
  /\ kpc = "idle"
  /\ pc # "init"
  /\ _needsReconfigure' = TRUE
  /\ LET need_clean == _kitChangeNeedsClean(_kit, kit)
     IN  /\ setKitCall' = [called |-> TRUE, prev |-> _kit, kit |-> kit,
                           need_clean |-> need_clean, rmdir |-> "none",
                           adopted |-> FALSE, before |-> disk,
                           removed |-> FALSE, untouched |-> FALSE]
         /\ kpc' = IF need_clean THEN "rmdir" ELSE "setBaseKit"
  /\ lastReturn' = Pending
  /\ UNCHANGED <<_kit, _buildType, _configArgs, _linkage, _targets, cmakeCache, disk,
                 pc, op>>
  /\ DriverFrame

\* the removal, were its failure swallowed: setKit goes on to adopt the kit
SetKitRmdirFailureSwallowed(ok) ==
  /\ kpc = "rmdir"
  /\ disk' = IF ok THEN rmdirBinaryDir(disk) ELSE disk
  /\ setKitCall' = [setKitCall EXCEPT !.rmdir = IF ok THEN "done" ELSE "failed"]
  /\ kpc' = "setBaseKit"
  /\ UNCHANGED <<_needsReconfigure, _kit, _buildType, _configArgs, _linkage, _targets,
                 cmakeCache, pc, op, lastReturn>>
  /\ DriverFrame

\* await fs.rmdir(this.binaryDir): the removal is done, or it fails and
\* setKit throws
SetKitRmdir(ok) ==
  /\ kpc = "rmdir"
  /\ IF ok
     THEN /\ disk' = rmdirBinaryDir(disk)
          /\ setKitCall' = [setKitCall EXCEPT !.rmdir = "done"]
          /\ kpc' = "setBaseKit"
          /\ UNCHANGED lastReturn
     ELSE /\ setKitCall' = [setKitCall EXCEPT !.rmdir = "failed",
                                               !.before = EmptyDisk,
                                               !.removed = (disk = EmptyDisk),
                                               !.untouched = (disk = setKitCall.before)]
          /\ kpc' = "idle"
          /\ lastReturn' = Returned("setKit", "threw", 0)
          /\ UNCHANGED disk
  /\ UNCHANGED <<_needsReconfigure, _kit, _buildType, _configArgs, _linkage, _targets,
                 cmakeCache, pc, op>>
  /\ DriverFrame

\* await this._setBaseKit(kit)
SetKitAdopt ==
  /\ kpc = "setBaseKit"
  /\ _kit' = setKitCall.kit
  /\ setKitCall' = [setKitCall EXCEPT !.adopted = TRUE,
                                       !.before = EmptyDisk,
                                       !.removed = (disk = EmptyDisk),
                                       !.untouched = (disk = setKitCall.before)]
  /\ kpc' = "idle"
  /\ lastReturn' = Returned("setKit", "void", 0)
  /\ UNCHANGED <<_needsReconfigure, _buildType, _configArgs, _linkage, _targets,
                 cmakeCache, disk, pc, op>>
  /\ DriverFrame

\* setVariantOptions(opts)
SetVariantOptions(opts) ==
  /\ pc # "init"
  /\ _buildType' = IF falsy(opts.buildType) THEN _buildType ELSE opts.buildType
  /\ _configArgs' = IF opts.settings = UndefinedSettings THEN _configArgs
                    ELSE opts.settings.value
  /\ _linkage' = IF falsy(opts.linkage) THEN _linkage ELSE opts.linkage
  /\ lastReturn' = Returned("setVariantOptions", "void", 0)
  /\ UNCHANGED <<_needsReconfigure, _kit, _targets, cmakeCache, disk, pc, op, kpc,
                 setKitCall>>
  /\ DriverFrame

\* configure() is called and awaits this._beforeConfigure()
Configure ==
  /\ pc = "idle"
  /\ pc' = "cfg_before"
  /\ op' = [NoOp EXCEPT !.name = "configure"]
  /\ lastReturn' = Pending
  /\ UNCHANGED <<_needsReconfigure, _kit, _buildType, _configArgs, _linkage, _targets,
                 cmakeCache, disk, kpc, setKitCall>>
  /\ DriverFrame

\* the validation hook answers, were its failure noticed only at the end:
\* configure goes on either way and a failed validation makes it return -1
\* after the refresh
ConfigureValidatedAbortsLate(ok) ==
  /\ pc = "cfg_before"
  /\ IF ok
     THEN pc' = "cfg_args" /\ UNCHANGED op
     ELSE pc' = "reload" /\ op' = [op EXCEPT !.retc = -1]
  /\ UNCHANGED <<_needsReconfigure, _kit, _buildType, _configArgs, _linkage, _targets,
                 cmakeCache, disk, kpc, setKitCall, lastReturn>>
  /\ DriverFrame

\* the validation hook answers: configure goes on, or returns -1
ConfigureValidated(ok) ==
  /\ pc = "cfg_before"
  /\ IF ok
     THEN /\ pc' = "cfg_args"
          /\ UNCHANGED lastReturn
     ELSE /\ pc' = "idle"
          /\ lastReturn' = Returned(op.name, "code", -1)
  /\ UNCHANGED <<_needsReconfigure, _kit, _buildType, _configArgs, _linkage, _targets,
                 cmakeCache, disk, op, kpc, setKitCall>>
  /\ DriverFrame

\* `await fs.exists(this.cachePath)` and the assembly of the arguments, up
\* to the call of executeCommand; without a kit configure throws
ConfigureSpawn ==
  /\ pc = "cfg_args"
  /\ IF _kit = NoKit
     THEN /\ pc' = "idle"
          /\ lastReturn' = Returned(op.name, "threw", 0)
          /\ UNCHANGED op
     ELSE /\ pc' = "cfg_exec"
          /\ op' = [op EXCEPT !.genArg = generatorArg(disk.cache) # <<>>,
                              !.args = configureArgs(disk.cache, _configArgs,
                                                     _buildType, _kit)]
          /\ UNCHANGED lastReturn
  /\ UNCHANGED <<_needsReconfigure, _kit, _buildType, _configArgs, _linkage, _targets,
                 cmakeCache, disk, kpc, setKitCall>>
  /\ DriverFrame

\* the external tool closes with retc and the flag is cleared whatever
\* retc is
ConfigureCloseAlwaysClears(retc) ==
  /\ pc = "cfg_exec"
  /\ op' = [op EXCEPT !.retc = retc]
  /\ _needsReconfigure' = FALSE
  /\ disk' \in IF retc = 0 THEN {configuredDisk(disk, op.genArg)}
               ELSE {disk, [disk EXCEPT !.cmakeFiles = TRUE]}
  /\ pc' = "reload"
  /\ UNCHANGED <<_kit, _buildType, _configArgs, _linkage, _targets, cmakeCache, kpc,
                 setKitCall, lastReturn>>
  /\ DriverFrame

\* the external tool closes with retc, were the refresh gated on success:
\* a non-zero exit code is returned at once
ConfigureCloseRefreshesOnSuccess(retc) ==
  /\ pc = "cfg_exec"
  /\ op' = [op EXCEPT !.retc = retc]
  /\ _needsReconfigure' = IF retc = 0 THEN FALSE ELSE _needsReconfigure
  /\ disk' \in IF retc = 0 THEN {configuredDisk(disk, op.genArg)}
               ELSE {disk, [disk EXCEPT !.cmakeFiles = TRUE]}
  /\ IF retc = 0
     THEN pc' = "reload" /\ UNCHANGED lastReturn
     ELSE pc' = "idle" /\ lastReturn' = Returned(op.name, "code", retc)
  /\ UNCHANGED <<_kit, _buildType, _configArgs, _linkage, _targets, cmakeCache, kpc,
                 setKitCall>>
  /\ DriverFrame

\* the external tool closes with retc: `res.retc == 0` clears the flag
ConfigureClose(retc) ==
  /\ pc = "cfg_exec"
  /\ op' = [op EXCEPT !.retc = retc]
  /\ _needsReconfigure' = IF retc = 0 THEN FALSE ELSE _needsReconfigure
  /\ disk' \in IF retc = 0 THEN {configuredDisk(disk, op.genArg)}
               ELSE {disk, [disk EXCEPT !.cmakeFiles = TRUE]}
  /\ pc' = "reload"
  /\ UNCHANGED <<_kit, _buildType, _configArgs, _linkage, _targets, cmakeCache, kpc,
                 setKitCall, lastReturn>>
  /\ DriverFrame

\* the external tool could not be started: the result promise is rejected
\* and the operation throws
ToolError ==
  /\ pc \in {"cfg_exec", "bld_exec"}
  /\ pc' = "idle"
  /\ lastReturn' = Returned(op.name, "threw", 0)
  /\ UNCHANGED <<_needsReconfigure, _kit, _buildType, _configArgs, _linkage, _targets,
                 cmakeCache, disk, op, kpc, setKitCall>>
  /\ DriverFrame

\* cleanConfigure() is called and awaits fs.exists(cache)
CleanConfigure ==
  /\ pc = "idle"
  /\ pc' = "clean_cache"
  /\ op' = [NoOp EXCEPT !.name = "cleanConfigure"]
  /\ lastReturn' = Pending
  /\ UNCHANGED <<_needsReconfigure, _kit, _buildType, _configArgs, _linkage, _targets,
                 cmakeCache, disk, kpc, setKitCall>>
  /\ DriverFrame

\* cleanConfigure, did it leave the cache file where it is
CleanCacheKeepsFile ==
  /\ pc = "clean_cache"
  /\ pc' = "clean_files"
  /\ UNCHANGED <<_needsReconfigure, _kit, _buildType, _configArgs, _linkage, _targets,
                 cmakeCache, disk, op, kpc, setKitCall, lastReturn>>
  /\ DriverFrame

\* if (await fs.exists(cache)) await fs.unlink(cache)
CleanCache ==
  /\ pc = "clean_cache"
  /\ disk' = IF disk.cache THEN unlinkCache(disk) ELSE disk
  /\ pc' = "clean_files"
  /\ UNCHANGED <<_needsReconfigure, _kit, _buildType, _configArgs, _linkage, _targets,
                 cmakeCache, op, kpc, setKitCall, lastReturn>>
  /\ DriverFrame

\* if (await fs.exists(cmake_files)) await fs.rmdir(cmake_files); then
\* configure() is called
CleanFiles ==
  /\ pc = "clean_files"
  /\ disk' = IF disk.cmakeFiles THEN rmdirCMakeFiles(disk) ELSE disk
  /\ pc' = "cfg_before"
  /\ UNCHANGED <<_needsReconfigure, _kit, _buildType, _configArgs, _linkage, _targets,
                 cmakeCache, op, kpc, setKitCall, lastReturn>>
  /\ DriverFrame

\* build(target) is called and awaits this._beforeConfigure()
Build(target) ==
  /\ pc = "idle"
  /\ pc' = "bld_before"
  /\ op' = [NoOp EXCEPT !.name = "build", !.target = target]
  /\ lastReturn' = Pending
  /\ UNCHANGED <<_needsReconfigure, _kit, _buildType, _configArgs, _linkage, _targets,
                 cmakeCache, disk, kpc, setKitCall>>
  /\ DriverFrame

\* the validation hook answers: build returns null, or reads the generator
\* name, picks the generator arguments and starts the tool
BuildSpawn(ok) ==
  /\ pc = "bld_before"
  /\ IF ok
     THEN /\ pc' = "bld_exec"
          /\ op' = [op EXCEPT !.extra = generator_args(generatorName, op.target),
                              !.args = buildArgs(_buildType, op.target,
                                                 generator_args(generatorName, op.target))]
          /\ UNCHANGED lastReturn
     ELSE /\ pc' = "idle"
          /\ lastReturn' = Returned(op.name, "null", 0)
          /\ UNCHANGED op
  /\ UNCHANGED <<_needsReconfigure, _kit, _buildType, _configArgs, _linkage, _targets,
                 cmakeCache, disk, kpc, setKitCall>>
  /\ DriverFrame

\* the build tool closes with retc, were the handle returned as soon as the
\* result settles, the refresh left to run later
BuildCloseReturnsAtOnce(retc) ==
  /\ pc = "bld_exec"
  /\ op' = [op EXCEPT !.retc = retc]
  /\ disk' = IF retc = 0 THEN [disk EXCEPT !.objects = TRUE] ELSE disk
  /\ pc' = "idle"
  /\ lastReturn' = Returned("build", "handle", retc)
  /\ UNCHANGED <<_needsReconfigure, _kit, _buildType, _configArgs, _linkage, _targets,
                 cmakeCache, kpc, setKitCall>>
  /\ DriverFrame

\* await res.result: the build tool closes with retc
BuildClose(retc) ==
  /\ pc = "bld_exec"
  /\ op' = [op EXCEPT !.retc = retc]
  /\ disk' = IF retc = 0 THEN [disk EXCEPT !.objects = TRUE] ELSE disk
  /\ pc' = "reload"
  /\ UNCHANGED <<_needsReconfigure, _kit, _buildType, _configArgs, _linkage, _targets,
                 cmakeCache, kpc, setKitCall, lastReturn>>
  /\ DriverFrame

\* await this._reloadCMakeCache()
Reload ==
  /\ pc = "reload"
  /\ cmakeCache' = reloadedCache(disk)
  /\ pc' = "refresh"
  /\ UNCHANGED <<_needsReconfigure, _kit, _buildType, _configArgs, _linkage, _targets,
                 disk, op, kpc, setKitCall, lastReturn>>
  /\ DriverFrame

\* what the operation in flight returns once its refresh is done
returnOf(o) ==
  CASE o.name = "create" -> Returned("create", "instance", 0)
    [] o.name = "build" -> Returned("build", "handle", o.retc)
    [] OTHER -> Returned(o.name, "code", o.retc)

\* _refreshTargets(): the help target is run with a TargetListParser for
\* the generator name.  Without a generator name (null) the first line
\* makes output() throw inside the stream's data handler, before the
\* handler empties its line buffer.  The host either stops there, or it
\* survives the uncaught exception: then the close handler finds the line
\* still in the buffer, calls output() again, throws again and never
\* resolves the result, so the await never ends; only when every line was
\* empty is the buffer empty at close and the result resolved.
RefreshTargets(listing, survives) ==
  /\ pc = "refresh"
  /\ IF generatorName = <<>> /\ listing # <<>>
     THEN IF ~survives
          THEN /\ pc' = "crashed"
               /\ UNCHANGED <<_targets, lastReturn>>
          ELSE IF \E i \in 1..Len(listing) : listing[i] # <<>>
          THEN /\ pc' = "hung"
               /\ UNCHANGED <<_targets, lastReturn>>
          ELSE /\ _targets' = <<>>
               /\ pc' = "idle"
               /\ lastReturn' = returnOf(op)
     ELSE /\ _targets' = targetsAssigned(_targets, parseListing(generatorName, <<>>, listing))
          /\ pc' = "idle"
          /\ lastReturn' = returnOf(op)
  /\ UNCHANGED <<_needsReconfigure, _kit, _buildType, _configArgs, _linkage,
                 cmakeCache, disk, op, kpc, setKitCall>>
  /\ DriverFrame

InitExec == ExecStart /\ ParserUnused /\ CacheUnused /\ DriverUnused

NextExec ==
  \/ \E n \in 1..MaxOut : StdoutData(n)
  \/ \E n \in 1..MaxErr : StderrData(n)
  \/ \E err \in SpawnErrors : OnError(err)
  \/ \E retc \in ExitCodes : OnClose(retc)

SpecExec == InitExec /\ [][NextExec]_vars

InitParser == ParserStart /\ ExecUnused /\ CacheUnused /\ DriverUnused

NextParser ==
  \/ \E l \in ListingLines : ParserOutput(l)
  \/ \E l \in ListingLines : ParserError(l)

SpecParser == InitParser /\ [][NextParser]_vars

InitCache == CacheStart /\ ExecUnused /\ ParserUnused /\ DriverUnused

NextCache ==
  \/ FromPath
  \/ FromPathExists
  \/ FromPathRead
  \/ \E i \in 1..MaxFromPath : GetReloaded(i)
  \/ \E content \in WrittenContents : FsWrite(content)
  \/ FsUnlink

SpecCache == InitCache /\ [][NextCache]_vars

\* The driver, its operations called one after the other: an operation is
\* called only when no other is in flight.
Init == DriverStart /\ ExecUnused /\ ParserUnused /\ CacheUnused

Next ==
  \/ Create
  \/ \E kit \in Kits : pc = "idle" /\ SetKit(kit)
  \/ \E ok \in BOOLEAN : SetKitRmdir(ok)
  \/ SetKitAdopt
  \/ \E opts \in VariantOptions : pc = "idle" /\ kpc = "idle" /\ SetVariantOptions(opts)
  \/ kpc = "idle" /\ Configure
  \/ \E ok \in BOOLEAN : ConfigureValidated(ok)
  \/ ConfigureSpawn
  \/ \E retc \in ExitCodes : ConfigureClose(retc)
  \/ ToolError
  \/ kpc = "idle" /\ CleanConfigure
  \/ CleanCache
  \/ CleanFiles
  \/ \E target \in BuildTargets : kpc = "idle" /\ Build(target)
  \/ \E ok \in BOOLEAN : BuildSpawn(ok)
  \/ \E retc \in ExitCodes : BuildClose(retc)
  \/ Reload
  \/ \E listing \in TargetListings, survives \in BOOLEAN : RefreshTargets(listing, survives)

Spec == Init /\ [][Next]_vars

\* ---- setKit interleaved with a configure in flight
\* configure() and setKit() are async methods of one object and nothing
\* in either keeps the other from running between its awaits: here
\* setKit may be called, and its awaits may complete, at every suspension
\* point of a configure; a configure is started while no setKit is in
\* flight.
InitInterleaved == DriverStart /\ ExecUnused /\ ParserUnused /\ CacheUnused

NextInterleaved ==
  \/ Create
  \/ \E kit \in Kits : SetKit(kit)
  \/ \E ok \in BOOLEAN : SetKitRmdir(ok)
  \/ SetKitAdopt
  \/ kpc = "idle" /\ Configure
  \/ \E ok \in BOOLEAN : ConfigureValidated(ok)
  \/ ConfigureSpawn
  \/ \E retc \in ExitCodes : ConfigureClose(retc)
  \/ ToolError
  \/ Reload
  \/ \E listing \in TargetListings, survives \in BOOLEAN : RefreshTargets(listing, survives)

SpecInterleaved == InitInterleaved /\ [][NextInterleaved]_vars

-----------------------------------------------------------------------------
(* Properties of execute() *)

\* the lines of the calls made on one method of the consumer, in order
linesGiven(method) ==
  LET cs == SelectSeq(calls, LAMBDA c : c.op = method)
  IN  [i \in 1..Len(cs) |-> cs[i].line]

\* the text consists of newline-terminated lines
NewlineTerminated(t) == t = <<>> \/ t[Len(t)] = LF

NewlinesOf(t) == {i \in 1..Len(t) : t[i] = LF}

\* the line of t that ends at the newline at e: what lies between the
\* newline before it and e, without a carriage return right before e
LineEndingAt(t, e) ==
  LET before == {j \in NewlinesOf(t) : j < e}
      start == IF before = {} THEN 1
               ELSE 1 + CHOOSE j \in before : \A k \in before : k <= j
      raw == SubSeq(t, start, e - 1)
  IN  IF raw # <<>> /\ raw[Len(raw)] = CR THEN SubSeq(raw, 1, Len(raw) - 1) ELSE raw

\* the complete lines of t, in order
LinesOf(t) ==
  [k \in 1..Cardinality(NewlinesOf(t)) |->
     LineEndingAt(t, CHOOSE e \in NewlinesOf(t) :
                        Cardinality({j \in NewlinesOf(t) : j <= e}) = k)]

\* C1: with a consumer attached and a stdout text of newline-terminated
\* lines, however the text is cut into chunks, the output() calls made so
\* far are exactly the complete lines received so far, in order, each
\* without the carriage return before its newline; so at the end there is
\* one call per line and the close event adds none.
C1_EveryChunkingGivesTheLines ==
  (outputConsumer /\ NewlineTerminated(stdout_acc \o out_rest))
    => linesGiven("output") = LinesOf(stdout_acc)

\* the calls the close handler owes: the partial lines still buffered,
\* stdout first, made while the promise was pending
owedAtClose ==
  (IF line_acc # <<>>
   THEN <<[op |-> "output", line |-> line_acc, settled |-> FALSE]>> ELSE <<>>)
  \o
  (IF stderr_line_acc # <<>>
   THEN <<[op |-> "error", line |-> stderr_line_acc, settled |-> FALSE]>> ELSE <<>>)

\* C7: once the promise is resolved with a consumer attached, the last
\* calls on the consumer are the non-empty partial lines, stdout before
\* stderr, and they were made before the promise was resolved.
C7_FlushedBeforeResolved ==
  (result.state = "resolved" /\ outputConsumer)
    => /\ Len(calls) >= Len(owedAtClose)
       /\ SubSeq(calls, Len(calls) - Len(owedAtClose) + 1, Len(calls)) = owedAtClose

\* C7 witness: a child closed with a partial line on both streams
C7_Witness ==
  /\ result.state = "resolved"
  /\ outputConsumer
  /\ line_acc # <<>>
  /\ stderr_line_acc # <<>>

\* C8: no call on the consumer is made after the promise has settled.
C8_NoCallAfterSettled ==
  \A i \in 1..Len(calls) : ~calls[i].settled

\* C9: the promise is pending until the first 'error' or 'close' event; if
\* that event is an error the promise is rejected with its error for good,
\* if it is the close the promise is resolved for good with the exit code
\* of the close and the accumulated texts.
C9_SettlesOnceByFirstEvent ==
  /\ events = <<>> => result.state = "pending"
  /\ (events # <<>> /\ events[1].type = "error")
       => result = [state |-> "rejected", value |-> events[1].value]
  /\ (events # <<>> /\ events[1].type = "close")
       => /\ result.state = "resolved"
          /\ result.value.retc = events[1].value
          /\ result.value.stdout = stdout_acc
          /\ result.value.stderr = stderr_acc

\* C9 witness: an error event came first and the child closed afterwards
C9_Witness ==
  /\ Len(events) = 2
  /\ events[1].type = "error"
  /\ events[2].type = "close"
  /\ result.state = "rejected"

-----------------------------------------------------------------------------
(* Properties of TargetListParser *)

\* the generator names of the Makefile family
MakefileFamily == {UnixMakefiles, NMakeMakefiles}

\* the longest prefix of t that holds no space
FirstWord(t) ==
  SubSeq(t, 1, CHOOSE m \in 0..Len(t) :
                 /\ \A i \in 1..m : t[i] # " "
                 /\ m = Len(t) \/ t[m + 1] = " ")

\* the number of spaces t begins with
LeadingSpaces(t) ==
  CHOOSE n \in 0..Len(t) :
    /\ \A i \in 1..n : t[i] = " "
    /\ n = Len(t) \/ t[n + 1] # " "

BeginsWithDots(t) == Len(t) >= 3 /\ SubSeq(t, 1, 3) = Dots

RECURSIVE namesOf(_, _)
\* the names a reading of the lines attributes to the lines fed, in order;
\* Reading(text) is the sequence of names one line contributes
namesOf(Reading(_), lines) ==
  IF lines = <<>> THEN <<>>
  ELSE Reading(lineText(Head(lines).line)) \o namesOf(Reading, Tail(lines))

\* C2 as stated: "..." followed by one or more spaces and a target name
\* contributes that name, a line that does not begin with "..." nothing
MakefileNameAfterSpaces(t) ==
  IF BeginsWithDots(t)
  THEN <<FirstWord(SubSeq(t, 4 + LeadingSpaces(SubSeq(t, 4, Len(t))), Len(t)))>>
  ELSE <<>>

\* the lines C2 speaks of
MakefileLineOfClaim(t) ==
  \/ ~BeginsWithDots(t)
  \/ /\ LeadingSpaces(SubSeq(t, 4, Len(t))) >= 1
     /\ FirstWord(SubSeq(t, 4 + LeadingSpaces(SubSeq(t, 4, Len(t))), Len(t))) # <<>>

\* C2 (as stated): for a Makefile generator, when every line fed either
\* does not begin with "..." or is "...", one or more spaces, a target
\* name and an optional annotation, targetNames is exactly those target
\* names in order.
C2_NameAfterAnySpaces ==
  (/\ generator \in MakefileFamily
   /\ \A i \in 1..Len(fed) : MakefileLineOfClaim(lineText(fed[i].line)))
    => _targetNames = namesOf(MakefileNameAfterSpaces, fed)

\* what the fifth column rule gives: the word that starts at the fifth
\* character, empty when a space or nothing stands there
MakefileNameAtFifthColumn(t) ==
  IF BeginsWithDots(t) THEN <<FirstWord(SubSeq(t, 5, Len(t)))>> ELSE <<>>

\* C2 (amended): for a Makefile generator every line that begins with
\* "..." contributes one name, the word that starts at its fifth character
\* and ends before the next space, and any other line contributes nothing:
\* "... clean" gives "clean", "...  all" gives the empty name.
C2_NameAtFifthColumn ==
  generator \in MakefileFamily
    => _targetNames = namesOf(MakefileNameAtFifthColumn, fed)

\* C2 witness: a line with one space and an annotation, then one with two
\* spaces
C2_Witness ==
  /\ generator \in MakefileFamily
  /\ Len(fed) = 2
  /\ fed[1].line = [head |-> Dots \o <<" ">>, word |-> <<"b", "c">>, tail |-> <<" ", "x">>]
  /\ fed[2].line = [head |-> Dots \o <<" ", " ">>, word |-> <<"a">>, tail |-> <<>>]
  /\ _targetNames = <<<<"b", "c">>, <<>>>>

ColonSpacesOf(t) == {i \in 1..(Len(t) - 1) : t[i] = ":" /\ t[i + 1] = " "}

HasUmbrellaPhrase(t) ==
  \E i \in 1..Len(t) :
    /\ i + Len(AllPrimaryTargets) - 1 <= Len(t)
    /\ SubSeq(t, i, i + Len(AllPrimaryTargets) - 1) = AllPrimaryTargets

\* the text before the first ": " of a line that has one and is not the
\* umbrella line
NinjaName(t) ==
  IF ColonSpacesOf(t) # {} /\ ~HasUmbrellaPhrase(t)
  THEN <<SubSeq(t, 1, (CHOOSE i \in ColonSpacesOf(t) : \A j \in ColonSpacesOf(t) : i <= j) - 1)>>
  ELSE <<>>

\* C3: for a generator outside the Makefile family a line contributes a
\* name iff it holds ": " and not the umbrella phrase, and the name is the
\* text before the first ": ".
C3_NameBeforeFirstColon ==
  (generator \in Generators \ MakefileFamily)
    => _targetNames = namesOf(NinjaName, fed)

\* C3 witness: a target line followed by an umbrella line
C3_Witness ==
  /\ generator = Ninja
  /\ Len(fed) = 2
  /\ fed[1].line = [head |-> <<>>, word |-> <<"a">>, tail |-> <<":", " ", "x">>]
  /\ fed[2].line.head = AllPrimaryTargets \o <<" ">>
  /\ fed[2].line.tail = <<":", " ", "x">>
  /\ _targetNames = <<<<"a">>>>

\* the name a line contributes under the grammar of generator gen, whether
\* the line came through output or through error
NameOfLine(gen, t) ==
  IF gen \in MakefileFamily THEN MakefileNameAtFifthColumn(t) ELSE NinjaName(t)

RECURSIVE NamesInCallOrder(_, _)
\* the names of the calls made so far, in call order, duplicates kept
NamesInCallOrder(gen, callsMade) ==
  IF callsMade = <<>> THEN <<>>
  ELSE NameOfLine(gen, lineText(Head(callsMade).line))
         \o NamesInCallOrder(gen, Tail(callsMade))

\* one call leaves the names or appends one name, and keeps the generator
AppendsAtMostOne ==
  /\ generator' = generator
  /\ \/ _targetNames' = _targetNames
     \/ /\ Len(_targetNames') = Len(_targetNames) + 1
        /\ SubSeq(_targetNames', 1, Len(_targetNames)) = _targetNames

\* C25: whatever mix of output and error calls was made, targetNames is the
\* sequence, in call order and with duplicates, of the names of the
\* significant lines under the grammar of the generator given at
\* construction; a call appends at most one name and leaves the earlier
\* names and the generator as they were.
C25_ErrorIsOutput ==
  /\ [](_targetNames = NamesInCallOrder(generator, fed))
  /\ [][AppendsAtMostOne]_vars

\* C25 witness: the same target line came once through output and once
\* through error and the name is held twice
C25_Witness ==
  /\ generator = Ninja
  /\ Len(fed) = 2
  /\ fed[1].op = "output"
  /\ fed[2].op = "error"
  /\ fed[1].line = fed[2].line
  /\ _targetNames = <<<<"a">>, <<"a">>>>

-----------------------------------------------------------------------------
(* Properties of CMakeCache *)

\* the type tokens the cache format knows
RecognisedTypes ==
  {T_BOOL, T_STRING, T_PATH, T_FILEPATH, T_INTERNAL, T_UNINITIALIZED, T_STATIC}

\* the entry type each of them stands for
TypeNamed(t) ==
  CASE t = T_BOOL -> "Bool"
    [] t = T_STRING -> "String"
    [] t = T_PATH -> "Path"
    [] t = T_FILEPATH -> "FilePath"
    [] t = T_INTERNAL -> "Internal"
    [] t = T_UNINITIALIZED -> "Uninitialized"
    [] t = T_STATIC -> "Static"

\* the places of the delimiters of name:type=value in a line: the first
\* ':' and the first '=' after it (0 when there is none)
FirstColon(t) ==
  IF \E i \in 1..Len(t) : t[i] = ":"
  THEN CHOOSE i \in 1..Len(t) : t[i] = ":" /\ \A j \in 1..(i - 1) : t[j] # ":"
  ELSE 0
FirstEquals(t) ==
  IF FirstColon(t) > 0 /\ \E i \in (FirstColon(t) + 1)..Len(t) : t[i] = "="
  THEN CHOOSE i \in (FirstColon(t) + 1)..Len(t) :
         t[i] = "=" /\ \A j \in (FirstColon(t) + 1)..(i - 1) : t[j] # "="
  ELSE 0

\* a well-formed line: name:type=value with a name and a type token
WellFormed(t) ==
  /\ ~(Len(t) >= 2 /\ SubSeq(t, 1, 2) = Slashes)
  /\ FirstColon(t) > 1
  /\ FirstEquals(t) > FirstColon(t) + 1
NameIn(t) == SubSeq(t, 1, FirstColon(t) - 1)
TypeIn(t) == SubSeq(t, FirstColon(t) + 1, FirstEquals(t) - 1)
ValueIn(t) == SubSeq(t, FirstEquals(t) + 1, Len(t))

\* the -ADVANCED marker lines, which the format drops without a report
AdvancedMarker(t) ==
  /\ Len(NameIn(t)) >= Len(ADVANCED)
  /\ SubSeq(NameIn(t), Len(NameIn(t)) - Len(ADVANCED) + 1, Len(NameIn(t))) = ADVANCED
  /\ ValueIn(t) = One

\* what C6 says of the i-th line of the loop, given the entries and reports
\* before it and after it
C6_OfLine(t, before, after) ==
  /\ (WellFormed(t) /\ TypeIn(t) \in RecognisedTypes)
       => /\ NameIn(t) \in DOMAIN after.entries
          /\ after.entries[NameIn(t)].type = TypeNamed(TypeIn(t))
          /\ after.entries[NameIn(t)].key = NameIn(t)
          /\ IF TypeIn(t) = T_BOOL
             THEN /\ ValueIn(t) = ON => after.entries[NameIn(t)].value = [bool |-> TRUE]
                  /\ ValueIn(t) = OFF => after.entries[NameIn(t)].value = [bool |-> FALSE]
             ELSE after.entries[NameIn(t)].value = [str |-> ValueIn(t)]
  /\ (WellFormed(t) /\ TypeIn(t) \notin RecognisedTypes)
       => /\ after.entries = before.entries
          /\ Len(after.errors) = Len(before.errors) + 1

\* C6: in every parseCache run, each well-formed line (the -ADVANCED
\* marker lines apart) with a recognised type token leaves an entry of that
\* type under its name, a Bool entry holding the truth value of ON or OFF
\* and any other the raw string; each with another type token leaves the
\* entries as they were and makes exactly one report; and this holds of
\* every line, whatever came before it.
C6_TypedEntriesAndUnknownTypes ==
  \A i \in 1..Len(parseLog.lines) :
    ~AdvancedMarker(parseLog.lines[i])
      => C6_OfLine(parseLog.lines[i], parseLog.loop[i], parseLog.loop[i + 1])

\* the keys looked up in the model
CacheKeys == {FOO, FOO \o ADVANCED}

\* C10: every fromPath() call whose fs.exists found no file returned, with
\* no report made, an instance with exists = false whose entry mapping is
\* empty: get(key) is absent for every key and allEntries is empty.
C10_MissingFileGivesEmptyCache ==
  \A i \in 1..Len(fromPathLog) :
    ~fromPathLog[i].seen
      => /\ fromPathLog[i].ended = "returned"
         /\ fromPathLog[i].reports = 0
         /\ LET c == caches[fromPathLog[i].at]
            IN  /\ c.exists = FALSE
                /\ c.path = ThePath
                /\ c.entries = EmptyMap
                /\ allEntries(c) = {}
                /\ \A key \in CacheKeys : get(c, key) = Null

\* C10 witness: a call found no file and returned, and the file was
\* written afterwards
C10_Witness ==
  /\ Len(fromPathLog) >= 1
  /\ ~fromPathLog[1].seen
  /\ fromPathLog[1].ended = "returned"
  /\ file # NoFile

\* what an instance shows of itself: its path, its exists flag and the
\* result of get for every key
Shown(c) ==
  [path |-> c.path, exists |-> c.exists,
   got |-> [key \in CacheKeys \cup DOMAIN c.entries |-> get(c, key)]]

\* the snapshot of the file as it is now
SnapshotOfFile ==
  IF file = NoFile THEN CMakeCache(ThePath, FALSE, EmptyMap)
  ELSE CMakeCache(ThePath, TRUE, parsedEntries(parseCache(file.content)))

\* what a step may do to the instances: none is dropped and none changes
\* what it shows; a getReloaded() that returns adds one instance, which is
\* the snapshot of the file as it is in that step
C11_Step ==
  /\ Len(caches') >= Len(caches)
  /\ \A i \in 1..Len(caches) : Shown(caches'[i]) = Shown(caches[i])
  /\ (caches # <<>> /\ Len(caches') # Len(caches))
       => /\ Len(caches') = Len(caches) + 1
          /\ Shown(caches'[Len(caches')]) = Shown(SnapshotOfFile)

\* C11: no step - a write or a removal of the file, a getReloaded() call or
\* its return - changes the path, the exists flag or the result of get(key)
\* of an instance that was constructed; a getReloaded() that returns gives
\* a further instance, which shows the file as it is at the reload.
C11_InstancesAreSnapshots == [][C11_Step]_vars

\* C11 witness: the file was removed after the first instance was read from
\* it, and the reloaded instance shows no file while the first one still
\* shows its entries
C11_Witness ==
  /\ Len(caches) >= 2
  /\ caches[1].exists
  /\ DOMAIN caches[1].entries # {}
  /\ ~caches[2].exists
  /\ file = NoFile

\* a `//` comment line and the fragment it adds to the docstring
IsCommentLine(t) == Len(t) >= 2 /\ SubSeq(t, 1, 2) = Slashes
Fragment(t) == SubSeq(t, 3, Len(t)) \o <<" ">>

\* the first of the comment lines that lie directly before line i
RunStart(lines, i) ==
  CHOOSE j \in 1..i :
    /\ \A k \in j..(i - 1) : IsCommentLine(lines[k])
    /\ (j > 1 => ~IsCommentLine(lines[j - 1]))

RECURSIVE FragmentsOf(_, _, _)
\* the fragments of the lines j..(i - 1), each followed by a space
FragmentsOf(lines, j, i) ==
  IF j >= i THEN <<>> ELSE Fragment(lines[j]) \o FragmentsOf(lines, j + 1, i)

\* without the white space at both ends
Trimmed(t) ==
  IF \A k \in 1..Len(t) : t[k] = " " THEN <<>>
  ELSE LET a == CHOOSE k \in 1..Len(t) : t[k] # " " /\ \A m \in 1..(k - 1) : t[m] = " "
           b == CHOOSE k \in 1..Len(t) : t[k] # " " /\ \A m \in (k + 1)..Len(t) : t[m] = " "
       IN  SubSeq(t, a, b)

\* C18: in every parseCache run, after each non-comment line the docstring
\* accumulator is empty, and the entry a line produces has as its
\* helpString the trimmed concatenation of the fragments of the comment
\* lines that lie between the preceding non-comment line and that line.
C18_DocstringOfNextLineOnly ==
  \A i \in 1..Len(parseLog.lines) :
    LET t == parseLog.lines[i]
        after == parseLog.loop[i + 1]
    IN  ~IsCommentLine(t)
          => /\ after.docs_acc = <<>>
             /\ (WellFormed(t) /\ TypeIn(t) \in RecognisedTypes /\ ~AdvancedMarker(t))
                  => after.entries[NameIn(t)].docs
                       = Trimmed(FragmentsOf(parseLog.lines, RunStart(parseLog.lines, i), i))

\* C19: in every parseCache run, each non-comment line that is not
\* name:type=value with a name and a type token leaves the entries as they
\* were and makes exactly one report, and the loop goes on to the lines
\* after it.
C19_MalformedLinesAreReported ==
  /\ parseLog.loop # <<>> => Len(parseLog.loop) = Len(parseLog.lines) + 1
  /\ \A i \in 1..Len(parseLog.lines) :
       LET t == parseLog.lines[i]
       IN  (~IsCommentLine(t) /\ ~WellFormed(t))
             => /\ parseLog.loop[i + 1].entries = parseLog.loop[i].entries
                /\ Len(parseLog.loop[i + 1].errors) = Len(parseLog.loop[i].errors) + 1

-----------------------------------------------------------------------------
(* Properties of LegacyCMakeDriver *)

\* a configure (direct or through cleanConfigure) obtains exit code 0 from
\* the external tool in this step
ConfigureObtainsZero ==
  /\ pc = "cfg_exec"
  /\ pc' = "reload"
  /\ op.name \in {"configure", "cleanConfigure"}
  /\ op'.retc = 0

\* setKit is called in this step
SetKitIsCalled == kpc = "idle" /\ kpc' \in {"rmdir", "setBaseKit"}

\* the flag is true when create has returned and when a setKit call has
\* ended
C4_TrueAfterCreateAndSetKit ==
  lastReturn.op \in {"create", "setKit"} => _needsReconfigure

\* the steps that change the flag, and what the step of an exit code 0 does
C4_FlagStep ==
  /\ (_needsReconfigure /\ ~_needsReconfigure') => ConfigureObtainsZero
  /\ (~_needsReconfigure /\ _needsReconfigure') => SetKitIsCalled
  /\ ConfigureObtainsZero => ~_needsReconfigure'
  /\ SetKitIsCalled => _needsReconfigure'

\* C4: over the serialized operations of a driver, needsReconfigure is true
\* once create has returned and once any setKit has ended; it goes from true
\* to false only in the step in which a configure, direct or through
\* cleanConfigure, obtains exit code 0 from the external tool, and it does
\* so then; no other step (a non-zero exit code, a failed validation, a
\* build, setVariantOptions, a reload or a target discovery) changes it
\* except the call of setKit, which raises it.
C4_NeedsReconfigureLifecycle ==
  /\ []C4_TrueAfterCreateAndSetKit
  /\ [][C4_FlagStep]_vars

\* C4 witness: a cleanConfigure has returned exit code 0 after a setKit and
\* the flag is clear
C4_Witness ==
  /\ lastReturn = Returned("cleanConfigure", "code", 0)
  /\ setKitCall.called
  /\ ~_needsReconfigure

\* C5: of the latest setKit(kit) call: the policy is the one evaluated
\* against the kit active at the call; the removal of the binary directory
\* is undertaken iff the policy asks for it; while it is under way and until
\* the adoption the active kit is still the previous one; at the adoption
\* a required removal is done and the directory is gone, and with no
\* removal required the directory is as it was at the call; and whenever a
\* configure has the external tool running under a kit adopted with a
\* required removal, that removal was done.
C5_RemovesIffPolicySaysSo ==
  setKitCall.called =>
    /\ setKitCall.need_clean = _kitChangeNeedsClean(setKitCall.prev, setKitCall.kit)
    /\ kpc = "rmdir" =>
         /\ setKitCall.need_clean
         /\ setKitCall.rmdir = "none"
         /\ ~setKitCall.adopted
         /\ _kit = setKitCall.prev
    /\ kpc = "setBaseKit" =>
         /\ ~setKitCall.adopted
         /\ _kit = setKitCall.prev
         /\ IF setKitCall.need_clean
            THEN setKitCall.rmdir = "done" /\ disk = EmptyDisk
            ELSE setKitCall.rmdir = "none" /\ disk = setKitCall.before
    /\ kpc = "idle" =>
         /\ (setKitCall.rmdir # "none") = setKitCall.need_clean
         /\ setKitCall.adopted = (setKitCall.rmdir # "failed")
         /\ setKitCall.adopted => _kit = setKitCall.kit
         /\ (setKitCall.adopted /\ setKitCall.need_clean)
              => setKitCall.rmdir = "done" /\ setKitCall.removed
         /\ ~setKitCall.need_clean => setKitCall.untouched
    /\ (pc = "cfg_exec" /\ setKitCall.adopted /\ setKitCall.need_clean)
         => setKitCall.rmdir = "done"

\* C5 witness: a configure has the external tool running after a setKit
\* that removed a binary directory holding a cache
C5_Witness ==
  /\ pc = "cfg_exec"
  /\ setKitCall.called
  /\ setKitCall.need_clean
  /\ setKitCall.rmdir = "done"
  /\ setKitCall.removed
  /\ ~setKitCall.untouched
  /\ _kit = setKitCall.kit

\* the operation in flight is a configure, direct or through cleanConfigure
IsConfigure == op.name \in {"configure", "cleanConfigure"}

\* the subprocess of the operation in flight closes in this step
SubprocessCloses == pc \in {"cfg_exec", "bld_exec"} /\ pc' = "reload"

\* the cache is reloaded in this step
CacheReloads == pc = "reload" /\ pc' = "refresh" /\ cmakeCache' = reloadedCache(disk)

\* a target-discovery pass ends in this step with the targets it parsed
DiscoveryCompletes ==
  /\ pc = "refresh"
  /\ pc' = "idle"
  /\ \E listing \in TargetListings :
       _targets' = namedTargets(parseListing(generatorName, <<>>, listing))

\* a configure returns an exit code of the external tool in this step
ConfigureReturnsExitCode ==
  /\ lastReturn = Pending
  /\ lastReturn'.op \in {"configure", "cleanConfigure"}
  /\ lastReturn'.kind = "code"
  /\ lastReturn'.code # -1

\* the steps of a configure from the close of its subprocess to its return
C12_Step ==
  /\ (IsConfigure /\ pc' = "reload" /\ pc # "reload")
       => SubprocessCloses /\ op'.retc \in ExitCodes /\ lastReturn' = Pending
  /\ (IsConfigure /\ pc = "reload" /\ pc' # pc)
       => CacheReloads /\ op' = op /\ lastReturn' = Pending
  /\ (IsConfigure /\ pc' = "refresh" /\ pc # "refresh") => CacheReloads
  /\ (IsConfigure /\ pc = "refresh" /\ pc' # pc)
       => \/ pc' \in {"crashed", "hung"} /\ lastReturn' = Pending
          \/ DiscoveryCompletes /\ lastReturn' = Returned(op.name, "code", op.retc)
  /\ ConfigureReturnsExitCode
       => DiscoveryCompletes /\ lastReturn'.code = op.retc /\ op' = op

ReturnsAborted ==
  /\ lastReturn' # lastReturn
  /\ \/ lastReturn'.kind = "code" /\ lastReturn'.code = -1
     \/ lastReturn'.kind = "null"

\* the driver's state that an aborted call must leave alone
AbortLeaves ==
  UNCHANGED <<_needsReconfigure, _targets, cmakeCache, disk, _kit, _buildType,
              _configArgs, _linkage>>

\* what the steps of an aborted configure or build do
C13_Step ==
  /\ (pc = "idle" /\ pc' \in {"cfg_before", "bld_before"}) => AbortLeaves
  /\ (pc = "cfg_before" /\ pc' = "idle")
       => lastReturn' = Returned(op.name, "code", -1) /\ AbortLeaves
  /\ (pc = "bld_before" /\ pc' = "idle")
       => lastReturn' = Returned("build", "null", 0) /\ AbortLeaves
  /\ ReturnsAborted
       => /\ pc \in {"cfg_before", "bld_before"}
          /\ pc' = "idle"
          /\ (lastReturn'.kind = "null") = (op.name = "build")

\* C13: a configure returns -1 and a build returns null only in the step
\* in which the validation, awaited first, has failed: straight from that
\* await, before any subprocess is started and before any reload or target
\* discovery; neither the call nor that step changes needsReconfigure, the
\* targets, the held cache snapshot or the binary directory.
C13_AbortedByValidation == [][C13_Step]_vars

\* C13 witness: a configure has returned -1 on a driver whose flag is clear
\* and whose targets are discovered, and they still are
C13_Witness ==
  /\ lastReturn = Returned("configure", "code", -1)
  /\ ~_needsReconfigure
  /\ _targets # <<>>
  /\ cmakeCache.exists

\* the extra build arguments
ParallelismFlag == <<"-j", "numJobs">>
FullPathFlags == <<"/m", "/property:GenerateFullPaths=true">>

\* a build has its subprocess running: its arguments are assembled
BuildRuns == pc = "bld_exec" /\ op.name = "build"

\* the generator families of the claim
IsMakefileFamilyOrNinja(gen) ==
  gen \in {UnixMakefiles, MinGWMakefiles, NMakeMakefiles, Ninja}
IsVisualStudio(gen) == gen = VisualStudio15

\* C14 as stated: the extra arguments of a running build are, for every
\* target, the parallelism flag for a Makefile-family generator or Ninja,
\* the full-path flags for a Visual Studio generator and none for any other
\* or undetected generator.
C14_FlagsByGeneratorOnly ==
  BuildRuns =>
    op.extra = IF IsMakefileFamilyOrNinja(generatorName) THEN ParallelismFlag
               ELSE IF IsVisualStudio(generatorName) THEN FullPathFlags
               ELSE <<>>

\* the generators that are given the parallelism flag
ParallelGenerators == {UnixMakefiles, MinGWMakefiles, Ninja}

\* C14, amended: the extra arguments of a running build are the
\* parallelism flag for Unix Makefiles, MinGW Makefiles and Ninja when the
\* target is not "clean", the full-path flags for a Visual Studio generator
\* whatever the target, and none otherwise: none for NMake Makefiles, none
\* for the target "clean" under a Makefile or Ninja generator, none without
\* a detected generator.
C14_FlagsByGeneratorAndTarget ==
  BuildRuns =>
    op.extra = IF generatorName \in ParallelGenerators /\ op.target # "clean"
               THEN ParallelismFlag
               ELSE IF IsVisualStudio(generatorName) THEN FullPathFlags
               ELSE <<>>

\* C14 witness: a build of the target "clean" runs under Ninja with no
\* extra argument
C14_Witness ==
  /\ BuildRuns
  /\ generatorName = Ninja
  /\ op.target = "clean"
  /\ op.extra = <<>>

\* a build returns its Subprocess handle in this step
BuildReturnsHandle == lastReturn' # lastReturn /\ lastReturn'.kind = "handle"

\* an operation is called in this step
OperationIsCalled ==
  pc' \in {"cfg_before", "bld_before", "clean_cache"} /\ pc \notin {"clean_files", pc'}

\* a subprocess of configure or build is started in this step
SubprocessStarts == pc' \in {"cfg_exec", "bld_exec"} /\ pc' # pc

\* the steps of a build from the settling of its result to its return, and
\* the steps that begin the next operation
C15_Step ==
  /\ (op.name = "build" /\ pc' = "reload" /\ pc # "reload")
       => pc = "bld_exec" /\ op'.retc \in ExitCodes /\ lastReturn' = Pending
  /\ (op.name = "build" /\ pc = "reload" /\ pc' # pc)
       => CacheReloads /\ op' = op /\ lastReturn' = Pending
  /\ BuildReturnsHandle
       => /\ op.name = "build"
          /\ DiscoveryCompletes
          /\ lastReturn' = Returned("build", "handle", op.retc)
  /\ OperationIsCalled => pc = "idle" /\ lastReturn # Pending
  /\ SubprocessStarts => pc \in {"cfg_args", "bld_before"} /\ lastReturn = Pending

\* C15: a build returns its handle only in the step that completes the
\* target discovery, which follows the cache reload, which follows the
\* settling of the subprocess's result, and the handle's result is that
\* settled one; an operation is called only when the one before it has
\* ended, so a subprocess is started only by the operation in flight,
\* after the refresh of every earlier operation.
C15_HandleAfterRefresh == [][C15_Step]_vars

\* C15 witness: a build has returned the handle of a subprocess that
\* closed with 0 and the driver holds the targets discovered after it
C15_Witness ==
  /\ lastReturn = Returned("build", "handle", 0)
  /\ cmakeCache.exists
  /\ disk.objects
  /\ _targets # <<>>

\* a configure has its subprocess running: its arguments are assembled
ConfigureRuns == pc = "cfg_exec"

\* the arguments after the generator selector, if there is one
AfterGenerator(args) ==
  IF args # <<>> /\ Head(args)[1] = "-G" THEN Tail(args) ELSE args

\* the -D definition of a variable
Definition(name, type, value) == <<"-D", name, ":", type, "=", value>>

\* the type and the text under which a setting's value is passed
TypeOfValue(v) == IF "bool" \in DOMAIN v THEN "BOOL" ELSE "STRING"
TextOfValue(v) == IF "bool" \in DOMAIN v THEN (IF v.bool THEN "TRUE" ELSE "FALSE") ELSE v.str

\* C16: the arguments a running configure was started with are, after the
\* generator selector if any: one argument -D<key>:<type>=<value> for each
\* configured setting, in the settings' order; the definition of
\* CMAKE_BUILD_TYPE as the build type; for a compiler kit one definition of
\* CMAKE_<lang>_COMPILER per language; the extra flags; the source and the
\* binary directory selectors.
C16_ArgumentsOfConfigure ==
  ConfigureRuns =>
    AfterGenerator(op.args) =
      [i \in 1..Len(_configArgs) |->
         Definition(_configArgs[i].key, TypeOfValue(_configArgs[i].value),
                    TextOfValue(_configArgs[i].value))]
      \o <<Definition("CMAKE_BUILD_TYPE", "STRING", _buildType)>>
      \o (IF _kit.type = "compilerKit"
          THEN [i \in 1..Len(_kit.compilers) |->
                  <<"-D", "CMAKE_", _kit.compilers[i][1], "_COMPILER", ":", "FILEPATH",
                    "=", _kit.compilers[i][2]>>]
          ELSE <<>>)
      \o _cmakeFlags
      \o <<<<"-H", "sourceDir">>, <<"-B", "binaryDir">>>>

\* the generator selectors among the arguments
GeneratorSelectors(args) == {i \in 1..Len(args) : args[i][1] = "-G"}

\* the arguments of a configure are assembled in this step
ArgumentsAreAssembled == pc = "cfg_args" /\ pc' = "cfg_exec"

\* what the assembly and the run of a configure do about the generator
C17_Step ==
  /\ ArgumentsAreAssembled
       => /\ (GeneratorSelectors(op'.args) # {}) = ~disk.cache
          /\ GeneratorSelectors(op'.args) \subseteq {1}
  /\ (ConfigureRuns /\ disk.cache /\ pc' = "reload")
       => disk'.cache /\ disk'.gen = disk.gen

\* C17: the arguments assembled by a configure hold a generator selector,
\* one and in first place, iff no cache file exists in the step of the
\* assembly; a configure run on an existing cache passes none and leaves
\* the cache's generator as it was.
C17_GeneratorOnlyWithoutCache ==
  /\ [](ConfigureRuns => (GeneratorSelectors(op.args) # {}) = ~disk.cache)
  /\ [][C17_Step]_vars

\* C17 witness: a configure runs without a generator selector on the Unix
\* Makefiles cache that an earlier successful configure has left in place
C17_Witness ==
  /\ ConfigureRuns
  /\ ~_needsReconfigure
  /\ disk.cache
  /\ disk.gen = UnixMakefiles
  /\ GeneratorSelectors(op.args) = {}

\* C20: with no detected generator a target-discovery pass neither stops
\* the host with an uncaught error nor stays unfinished, whatever the
\* external tool prints: it ends and the driver holds the parsed targets.
C20_DiscoveryEndsWithoutGenerator ==
  generatorName = <<>> => pc \notin {"crashed", "hung"}

\* the steps that belong to no target-discovery pass
OutsideDiscovery == pc # "refresh"

\* a target-discovery pass ends and its operation returns
DiscoveryReturns == pc = "refresh" /\ pc' = "idle"

\* the lists a pass can leave: the names its parser took from the lines of
\* the listing, in order, each as a named target, and nothing else
ListsOfAPass ==
  {namedTargets(parseListing(generatorName, <<>>, listing)) : listing \in TargetListings}

\* what one step does to the target list
C21_Step ==
  /\ OutsideDiscovery => _targets' = _targets
  /\ (pc = "refresh" /\ ~DiscoveryReturns) => _targets' = _targets
  /\ DiscoveryReturns => _targets' \in ListsOfAPass

IsCleanConfigure == op.name = "cleanConfigure"

\* the configure that cleanConfigure performs has begun and has not yet
\* handed its arguments to the external tool
CleanedBeforeAssembly == IsCleanConfigure /\ pc \in {"cfg_before", "cfg_args"}

\* what the steps of a cleanConfigure do
C22_Step ==
  /\ (pc = "idle" /\ pc' # "idle" /\ IsCleanConfigure') => pc' = "clean_cache"
  /\ pc = "clean_cache" => pc' = "clean_files" /\ ~disk'.cache
  /\ pc = "clean_files" => pc' = "cfg_before" /\ ~disk'.cmakeFiles /\ ~disk'.cache
  /\ (IsCleanConfigure' /\ pc' = "cfg_before") => pc = "clean_files"
  /\ (IsCleanConfigure /\ ArgumentsAreAssembled)
       => ~disk.cache /\ GeneratorSelectors(op'.args) = {1}

\* C22: cleanConfigure first removes the cache file, then the CMakeFiles
\* directory, and only then enters configure; while that configure is
\* before its argument assembly neither exists, and whenever it runs the
\* external tool the generator selector is among the arguments.
C22_CleanThenConfigureWithGenerator ==
  /\ [](CleanedBeforeAssembly => ~disk.cache /\ ~disk.cmakeFiles)
  /\ []((IsCleanConfigure /\ pc = "cfg_exec") => GeneratorSelectors(op.args) = {1})
  /\ [][C22_Step]_vars

\* C22 witness: a cleanConfigure runs the external tool with the generator
\* selector while the driver's last snapshot still shows the cache file
\* that the call has deleted
C22_Witness ==
  /\ IsCleanConfigure
  /\ pc = "cfg_exec"
  /\ cmakeCache.exists
  /\ ~disk.cache
  /\ ~disk.cmakeFiles
  /\ GeneratorSelectors(op.args) = {1}

\* a field of the options is set: it is given a value, whatever the value
IsSet(field) == field # Undefined
SettingsAreSet(opts) == opts.settings # UndefinedSettings

\* the value held after a setVariantOptions(opts), as the claim has it
Merged(given, held) == IF IsSet(given) THEN given ELSE held

\* what a step that is a setVariantOptions(opts) does
MergesOptions(opts) ==
  /\ _buildType' = Merged(opts.buildType, _buildType)
  /\ _configArgs' = IF SettingsAreSet(opts) THEN opts.settings.value ELSE _configArgs
  /\ _linkage' = Merged(opts.linkage, _linkage)
  /\ UNCHANGED <<_needsReconfigure, _targets, _kit, disk, cmakeCache, pc, kpc>>

\* the build type a running configure or build was started with
BuildTypeInUse ==
  IF pc = "cfg_exec"
  THEN {a[6] : a \in {op.args[i] : i \in {j \in 1..Len(op.args) :
                         op.args[j][2] = "CMAKE_BUILD_TYPE"}}}
  ELSE {op.args[4]}

\* C23: setVariantOptions(opts) sets build type, settings and linkage to
\* the value opts gives for the field when the field is set and keeps the
\* held value when it is not; the three start as "Debug", empty and
\* "static"; the call touches neither the directory nor a subprocess,
\* nor needsReconfigure, the targets and the active kit; a configure or a
\* build that runs the external tool passes the build type held.
C23_OptionsMerged ==
  /\ [](pc = "init" => _buildType = "Debug" /\ _configArgs = <<>> /\ _linkage = "static")
  /\ []((pc \in {"cfg_exec", "bld_exec"}) => BuildTypeInUse = {_buildType})
  /\ [][\A opts \in VariantOptions : SetVariantOptions(opts) => MergesOptions(opts)]_vars

\* the removal of the binary directory that setKit performs fails
RemovalFails == kpc = "rmdir" /\ setKitCall'.rmdir = "failed"

\* the last setKit call has ended by throwing to its caller
SetKitThrew == lastReturn = Returned("setKit", "threw", 0)

\* C24: when the removal performed by setKit fails, that step ends the
\* call by throwing to the caller, and the kit is never adopted by this
\* call: after it the active kit is the kit that was active when setKit
\* was called.
C24_FailedRemovalKeepsKit ==
  /\ [](setKitCall.rmdir = "failed"
          => /\ SetKitThrew \/ kpc = "idle"
             /\ ~setKitCall.adopted
             /\ _kit = setKitCall.prev)
  /\ [](SetKitThrew => setKitCall.rmdir = "failed")
  /\ [][RemovalFails => SetKitThrew' /\ kpc' = "idle" /\ _kit' = _kit]_vars

\* C24 witness: a setKit to a kit of another compiler family has thrown
\* and the kit active before the call is still the active one
C24_Witness ==
  /\ SetKitThrew
  /\ setKitCall.need_clean
  /\ setKitCall.kit # setKitCall.prev
  /\ _kit = setKitCall.prev
  /\ _kit # NoKit

\* create() has returned the instance and nothing was called on it yet
InstanceReturned == lastReturn = Returned("create", "instance", 0)

\* an operation of the instance is entered
OperationEntered ==
  \/ pc' \in {"clean_cache", "bld_before"} /\ pc' # pc
  \/ pc' = "cfg_before" /\ pc \notin {"cfg_before", "clean_files"}
  \/ kpc = "idle" /\ kpc' # "idle"

\* what the steps of create() do
C26_Step ==
  /\ (pc = "init" /\ disk.cache) => pc' = "refresh" /\ ~InstanceReturned'
  /\ (pc = "init" /\ ~disk.cache)
       => pc' = "idle" /\ InstanceReturned' /\ _targets' = <<>> /\ disk' = disk
  /\ (~InstanceReturned /\ InstanceReturned')
       => \/ pc = "init" /\ ~disk.cache
          \/ disk.cache /\ DiscoveryReturns /\ _targets' \in ListsOfAPass
  /\ OperationEntered => (pc = "idle" /\ lastReturn.op # "none")

\* C26: create() returns the instance only when initialization is over:
\* with a cache file at the cache path only in the step that ends one
\* target-discovery pass, the targets being that pass's result, and no
\* operation of the instance is entered before; without a cache file at
\* once, with no subprocess and empty targets; needsReconfigure is true
\* on the returned instance.
C26_CreateReturnsInitialized ==
  /\ [](InstanceReturned
          => /\ _needsReconfigure
             /\ pc = "idle"
             /\ IF disk.cache THEN _targets \in ListsOfAPass ELSE _targets = <<>>)
  /\ [](pc = "init" => ~InstanceReturned /\ _targets = <<>>)
  /\ [][C26_Step]_vars

\* C26 witness: create() has returned on a Ninja cache with the name that
\* the initial discovery pass has found
C26_Witness ==
  /\ InstanceReturned
  /\ disk.cache
  /\ generatorName = Ninja
  /\ _targets = namedTargets(<<<<"a">>>>)
  /\ _needsReconfigure

\* an argument that names the compiler of a language
IsCompilerDefinition(a) == Len(a) >= 4 /\ a[2] = "CMAKE_" /\ a[4] = "_COMPILER"

\* what a list of configure arguments says about the kit it was assembled from
KitArguments(args) == SelectSeq(args, IsCompilerDefinition)

\* the arguments of the configure in op were assembled from the kit that
\* is active now
AssembledFromActiveKit == KitArguments(op.args) = compilerArgs(_kit)

\* the most recent configure has exited with code 0: its tool has closed
\* with 0 and it is in its reload or refresh, or it has returned 0 and
\* nothing was called since
LastConfigureExitedZero ==
  /\ op.name = "configure"
  /\ \/ pc \in {"reload", "refresh"} /\ op.retc = 0
     \/ pc = "idle" /\ lastReturn = Returned("configure", "code", 0)

\* a configure clears the flag
FlagIsCleared == _needsReconfigure /\ ~_needsReconfigure'

\* C27: with setKit running at the suspension points of a configure,
\* whenever needsReconfigure is false the most recent configure that
\* exited with code 0 has assembled its arguments from the kit active
\* now; the flag is cleared only by a configure whose arguments come from
\* the active kit and during which no setKit was called and is still in
\* flight.
C27_ClearedFlagMeansActiveKitConfigured ==
  /\ []((~_needsReconfigure /\ LastConfigureExitedZero) => AssembledFromActiveKit)
  /\ [][FlagIsCleared => (AssembledFromActiveKit /\ kpc = "idle")]_vars

=============================================================================
